---- MODULE Spec2Model ----
(***************************************************************************)
(* A model of the sandbox pool of src/src/sandtrap/container/pool.py       *)
(* (class ContainerPool) as it runs on one asyncio event loop.             *)
(*                                                                         *)
(* A step of the model is what one coroutine does between two suspension   *)
(* points (an await that really suspends): acquiring a free asyncio.Lock   *)
(* does not suspend, waiting for a held one does, and every                *)
(* run_in_executor call (container create, container stop) does.           *)
(* asyncio.Lock is first-in first-out, so the lock is the queue lockq      *)
(* whose head is the holder.                                               *)
(*                                                                         *)
(* Sandboxes are the numbers 1, 2, ... in the order in which the runtime    *)
(* creates them; 0 stands for None.                                        *)
(***************************************************************************)
EXTENDS Integers, Sequences, FiniteSets, TLC

\* ---------------------------------------------------------------- bounds
\* config.size of the modelled pool (ContainerPoolConfig.size, ge=1).
PoolSize == 2
\* How many sandboxes the runtime can create before every further create fails.
MaxSandboxes == 3
\* Concurrent callers of allocate/release (session handler tasks, tests).
NumCallers == 2
\* allocate, release and shutdown calls made in one behaviour.
MaxCalls == 3

Callers == 1..NumCallers
\* Session identifiers the callers choose from, and "no session id".
SessionIds == {"s1", "s2"}
NoSession == "none"
\* What it takes to fill the ready queue beyond config.size: the sandboxes
\* of initialize, one allocation more than they serve, and the replacement
\* of every allocation.
OverfillSandboxes == 2 * PoolSize + 2
Sandboxes == 1..OverfillSandboxes
None == 0

VARIABLES
    ready_pool,          \* self.ready_pool: sequence of sandboxes
    active_sessions,     \* self.active_sessions: insertion-ordered dict, a sequence of <<session_id, sandbox>>
    stopped_containers,  \* self.stopped_containers: sequence of the stopped sandboxes
    lockq,               \* self._lock: head is the holder, the rest wait in order
    shutdown_flag,       \* self._shutdown
    created,             \* number of sandboxes the runtime has created so far
    status,              \* runtime state of each sandbox: "absent", "running", "stopped"
    stops,               \* number of container.stop calls issued on each sandbox
    init_pc,             \* position of the initialize() call
    init_tasks,          \* the gathered creations: None while running, -1 failed, else the sandbox
    pc,                  \* position of each caller
    arg,                 \* session_id argument of each caller's current call
    container,           \* local variable container of each caller's current call
    raised,              \* the operations one of whose calls raised to its caller
    calls,               \* allocate, release and shutdown calls made so far
    sd_pc,               \* position of the shutdown() call
    sd_items,            \* list(self.active_sessions.items()) taken by shutdown
    sd_i,                \* index of the loop shutdown is in
    rp_scheduled,        \* _spawn_replacement tasks created and not yet started
    rp_creating,         \* _spawn_replacement tasks waiting for their creation
    rp_stop,             \* the sandbox a replacement is stopping under the lock, or None
    bound,               \* history: sandboxes ever bound to a session by allocate
    holder,              \* history: per sandbox, the session id it was handed out under and not yet released
    nAllocOk,            \* history: number of allocate calls that returned a sandbox
    released,            \* history: sandboxes whose release call has returned
    sd_seen,             \* history: the sandboxes active or ready when shutdown was called
    budget,              \* environment: how many allocate, release and shutdown calls it makes
    exec_socket,         \* proxy.exec_socket: "none", "open" or "closed"
    _running,            \* proxy._running
    _shutdown_event,     \* proxy._shutdown_event is set
    task,                \* proxy.ssh_to_container_task / container_to_ssh_task: where each is
    cancel_req,          \* task.cancel() has been called on the task and not yet delivered
    cl_pc,               \* position of the coroutine that calls the proxy
    p_raised,            \* the proxy operations that raised an error to their caller
    waited,              \* history: a wait_completion call has returned
    exit_by,             \* per loop: how it left its try block, as its last log line tells
    stop_calls,          \* history: number of proxy.stop() calls made
    closes,              \* history: number of exec_socket.close() calls made
    recorder,            \* proxy.recorder is not None
    chunk_log,           \* history, per loop: the calls made for the chunk in hand, and how the writes ended
    unaccepted,          \* history: chunks read from exec_socket whose drain() has not completed
    h_pc,                \* position of container_session_handler
    h_container,         \* its local variable container
    h_rec,               \* history: the calls it has made to its recorder, in order
    h_cancelled,         \* connection_lost has cancelled the handler task
    h_releases,          \* history: number of container_pool.release calls it has made
    elapsed,             \* time the handler has spent in wait_completion
    enabled,             \* recorder._config.enabled
    geometry,            \* <<recorder._width, recorder._height>>
    _metadata,           \* recorder._metadata: "empty" ({}) or "given"
    _file,               \* recorder._file: "none" (None) or "open"
    _start_time,         \* recorder._start_time, in clock ticks
    _event_count,        \* recorder._event_count
    now,                 \* time.monotonic(), in ticks of half a microsecond
    disk,                \* disk: which of "output_dir", "cast" (<session_id>.cast), "json" (<session_id>.json) exist
    cast,                \* disk: the lines of <session_id>.cast
    pending,             \* lines written to the file object and not yet flushed to disk
    handle_open,         \* the file object opened by start() is open
    rec_log,             \* history: the record_* calls made, with their outcome
    start_calls,         \* history: how many recorder.start() calls were made: "none", "one" or "many"
    rec_raised,          \* history: a recorder method raised to its caller
    static_credentials,  \* config.static_credentials: sequence of <<username, password>>
    accept_all_after_failures, \* config.accept_all_after_failures
    _failed_attempts,    \* auth._failed_attempts: 0 stands for "no entry"
    auth_log,            \* history: the validate and cleanup_connection calls made, with what they returned
    unlocked_ops,        \* history: the pool operations that called a mutator of ready_pool,
                         \* active_sessions or stopped_containers without holding self._lock
    conn_state,          \* per SSH connection: "none", "made", "authenticated" or "lost"
    _session_info_map,   \* backend._session_info_map: the connection ids, in insertion order
    sessions,            \* history: the live sessions, each with its connection and its SessionInfo
    capacity,            \* environment: how many sandboxes the runtime creates before every create fails
    create_log           \* history: the _create_container calls made, with what the runtime answered

poolVars == <<ready_pool, active_sessions, stopped_containers, lockq, shutdown_flag>>
runtimeVars == <<created, status, stops>>
initVars == <<init_pc, init_tasks>>
callerVars == <<pc, arg, container, raised, calls>>
sdVars == <<sd_pc, sd_items, sd_i>>
rpVars == <<rp_scheduled, rp_creating, rp_stop>>
histVars == <<bound, holder, nAllocOk, released, sd_seen>>
\* what no step of the pool touches
proxyVars == <<exec_socket, _running, _shutdown_event, task, cancel_req, cl_pc, p_raised, waited, exit_by,
              stop_calls, closes, recorder, chunk_log, unaccepted>>
handlerVars == <<h_pc, h_container, h_rec, h_cancelled, h_releases, elapsed>>
recorderVars == <<enabled, geometry, _metadata, _file, _start_time, _event_count, now, disk,
                 cast, pending, handle_open, rec_log, start_calls, rec_raised>>
authVars == <<static_credentials, accept_all_after_failures, _failed_attempts, auth_log>>
\* the recorder and the authentication manager, which the pool, the proxy
\* model and the handler model leave alone
backendVars == <<conn_state, _session_info_map, sessions>>
sideVars == <<recorderVars, authVars, unlocked_ops, create_log, capacity, backendVars>>
extVars == <<budget, proxyVars, handlerVars, sideVars>>
allPoolVars == <<poolVars, runtimeVars, initVars, callerVars, sdVars, rpVars, histVars>>
\* what no step of the proxy touches
nonProxyVars == <<allPoolVars, budget, handlerVars, sideVars>>
vars == <<poolVars, runtimeVars, initVars, callerVars, sdVars, rpVars, histVars, extVars>>

\* ------------------------------------------------------- sequence helpers
Range(s) == {s[i] : i \in 1..Len(s)}
Front(s) == SubSeq(s, 1, Len(s) - 1)
Last(s) == s[Len(s)]

\* dict operations on the insertion-ordered active_sessions
ActiveKeys(a) == {a[i][1] : i \in 1..Len(a)}
ActiveValues(a) == {a[i][2] : i \in 1..Len(a)}
ActiveGet(a, s) == IF s \in ActiveKeys(a)
                   THEN a[CHOOSE i \in 1..Len(a) : a[i][1] = s][2]
                   ELSE None
RECURSIVE Without(_, _)
Without(a, s) == IF a = <<>> THEN <<>>
                 ELSE IF Head(a)[1] = s THEN Without(Tail(a), s)
                 ELSE <<Head(a)>> \o Without(Tail(a), s)

\* Faulty pops: one that leaves the list as it was, one that returns the last
\* element and removes the first.
ready_pop_peek(r) == [c |-> Last(r), rest |-> r]
ready_pop_wrong_end(r) == [c |-> Last(r), rest |-> Tail(r)]

\* container = self.ready_pool.pop(): the last element leaves the list
ready_pop(r) == [c |-> Last(r), rest |-> Front(r)]

\* self.active_sessions[session_id] = container: a new key goes last, an
\* existing key keeps its place and gets the new value
active_put(a, s, c) ==
    IF s \in ActiveKeys(a)
    THEN [i \in 1..Len(a) |-> IF a[i][1] = s THEN <<s, c>> ELSE a[i]]
    ELSE Append(a, <<s, c>>)

\* A faulty pop that reads the entry and leaves it in the map.
active_pop_keep(a, s) == a

\* container = self.active_sessions.pop(session_id)
active_pop(a, s) == Without(a, s)

\* A faulty append that puts the new entry first.
stopped_prepend(st, c) == <<c>> \o st

\* self.stopped_containers.append((container, datetime.utcnow())): the entry is
\* modelled by its sandbox (the time stamp is read and never used by the pool)
stopped_append(st, c) == Append(st, c)

\* _create_container: one attempt, and one more after a DockerException; any
\* other exception of the first attempt leaves at once. r1, r2 are what the
\* runtime answers to the first and the second attempt.
AttemptResults == {"ok", "docker_error", "other_error"}
_create_container(r1, r2) ==
    IF r1 = "ok" THEN [ok |-> TRUE, attempts |-> 1]
    ELSE IF r1 = "docker_error"
         THEN [ok |-> (r2 = "ok"), attempts |-> 2]
         ELSE [ok |-> FALSE, attempts |-> 1]

\* lock queue entries
Me(p) == [k |-> "caller", id |-> p]
Sd == [k |-> "shutdown", id |-> 0]
Rp(c) == [k |-> "spawn", id |-> c]
LockFree == lockq = <<>>
Holds(e) == lockq # <<>> /\ Head(lockq) = e

PoolInitWith(cap) ==
    /\ capacity = cap
    /\ unlocked_ops = {}
    /\ create_log = <<>>
    /\ ready_pool = <<>>
    /\ active_sessions = <<>>
    /\ stopped_containers = <<>>
    /\ lockq = <<>>
    /\ shutdown_flag = FALSE
    /\ created = 0
    /\ status = [c \in Sandboxes |-> "absent"]
    /\ stops = [c \in Sandboxes |-> 0]
    /\ init_pc = "idle"
    /\ init_tasks = [i \in 1..PoolSize |-> None]
    /\ pc = [p \in Callers |-> "idle"]
    /\ arg = [p \in Callers |-> NoSession]
    /\ container = [p \in Callers |-> None]
    /\ raised = {}
    /\ calls = 0
    /\ sd_pc = "idle"
    /\ sd_items = <<>>
    /\ sd_i = 0
    /\ rp_scheduled = 0
    /\ rp_creating = 0
    /\ rp_stop = None
    /\ bound = {}
    /\ holder = [c \in Sandboxes |-> NoSession]
    /\ nAllocOk = 0
    /\ released = {}
    /\ sd_seen = {}

\* a pool as constructed, with a runtime of MaxSandboxes sandboxes
PoolInit == PoolInitWith(MaxSandboxes)

\* ContainerProxy.__init__ (hermes/session/proxy.py:50-61)
Loops == {"ssh_to_container", "container_to_ssh"}
ProxyInitWith(rec) ==
    /\ recorder = rec
    /\ chunk_log = [l \in Loops |-> <<>>]
    /\ unaccepted = 0
    /\ exec_socket = "none"
    /\ _running = FALSE
    /\ _shutdown_event = FALSE
    /\ task = [l \in Loops |-> "none"]
    /\ cancel_req = [l \in Loops |-> FALSE]
    /\ cl_pc = "idle"
    /\ p_raised = {}
    /\ waited = FALSE
    /\ exit_by = [l \in Loops |-> "none"]
    /\ stop_calls = 0
    /\ closes = 0

\* a proxy constructed with recorder=None
ProxyInit == ProxyInitWith(FALSE)

\* container_session_handler before its first step (__main__.py:98-100)
HandlerInit ==
    /\ h_pc = "init"
    /\ h_container = None
    /\ h_rec = <<>>
    /\ h_cancelled = FALSE
    /\ h_releases = 0
    /\ elapsed = 0

\* SessionRecorder.__init__ (sandtrap/session/recorder.py:23-38) for a
\* configuration e, a terminal size g and a metadata map m, on a disk where
\* the output directory does not exist yet
RecorderInit(e, g, m) ==
    /\ enabled = e
    /\ geometry = g
    /\ _metadata = m
    /\ _file = "none"
    /\ _start_time = 0
    /\ _event_count = 0
    /\ now = 0
    /\ disk = {}
    /\ cast = <<>>
    /\ pending = <<>>
    /\ handle_open = FALSE
    /\ rec_log = <<>>
    /\ start_calls = "none"
    /\ rec_raised = FALSE

\* AuthenticationManager.__init__ (hermes/server/auth.py:23-36) for a
\* credential list creds and a threshold n
ConnectionIds == {"conn1", "conn2"}
AuthInit(creds, n) ==
    /\ static_credentials = creds
    /\ accept_all_after_failures = n
    /\ _failed_attempts = [c \in ConnectionIds |-> 0]
    /\ auth_log = <<>>

\* SSH connections the server accepts in one behaviour
MaxConnections == 3
Connections == 1..MaxConnections

\* AsyncSSHBackend.__init__: no connection yet, an empty map
BackendInit ==
    /\ conn_state = [c \in Connections |-> "none"]
    /\ _session_info_map = <<>>
    /\ sessions = {}

\* a disabled recorder and an authentication manager without credentials,
\* for the behaviours in which neither is called
SideInit ==
    /\ RecorderInit(FALSE, <<80, 24>>, "empty")
    /\ AuthInit(<<>>, 0)
    /\ BackendInit

Init ==
    /\ PoolInit
    /\ budget = MaxCalls
    /\ ProxyInit
    /\ HandlerInit
    /\ SideInit

\* The runtime creates a sandbox: the next number, running.
NewSandbox == created + 1
RuntimeCreates ==
    /\ created' = created + 1
    /\ status' = [status EXCEPT ![NewSandbox] = "running"]

\* container.stop is called (the call is in flight in the executor).
StopIssued(c) == stops' = [stops EXCEPT ![c] = @ + 1]
\* container.stop returns: stopped when it succeeded, still running when it raised.
StopReturned(c, ok) == status' = [status EXCEPT ![c] = IF ok THEN "stopped" ELSE @]

\* ------------------------------------------------------------ initialize
\* Lifecycle step 1 (pool.py:32-38): initialize runs at startup, on a pool
\* nobody has used yet; sessions are served only after it returned.
Pristine == calls = 0
Serving == init_pc \in {"idle", "done"}

InitializeStart ==
    /\ init_pc = "idle" /\ Pristine
    /\ init_pc' = "gather"
    /\ UNCHANGED <<init_tasks, poolVars, runtimeVars, callerVars, sdVars, rpVars, histVars>>

\* containers = await asyncio.gather(*tasks) has every result: extend under the lock
initialize_extend(r, cs) == r \o cs

\* One gathered _create_container_sync finishes. gather raises at the first
\* failure and leaves the other creations running; their results are dropped.
InitializeTaskDone(i, r1, r2) ==
    LET res == _create_container(r1, r2)
        tasks == [init_tasks EXCEPT ![i] = IF res.ok THEN NewSandbox ELSE -1]
    IN
    /\ init_pc \in {"gather", "failed"}
    /\ init_tasks[i] = None
    /\ res.ok => created < capacity
    /\ init_tasks' = tasks
    /\ IF res.ok THEN RuntimeCreates ELSE UNCHANGED <<created, status>>
    /\ IF init_pc = "gather" /\ ~res.ok
       THEN \* except Exception: _cleanup_ready_containers() walks self.ready_pool
            \* (empty on a pristine pool), clears it, and RuntimeError is raised;
            \* neither the except clause (pool.py:93-96) nor
            \* _cleanup_ready_containers (pool.py:347-355) takes self._lock
            /\ ready_pool = <<>>
            /\ ready_pool' = <<>>
            /\ init_pc' = "failed"
            /\ unlocked_ops' = unlocked_ops \cup {"initialize"}
       ELSE IF init_pc = "gather" /\ \A j \in 1..PoolSize : tasks[j] > 0
       THEN /\ LockFree
            /\ ready_pool' = initialize_extend(ready_pool, tasks)
            /\ init_pc' = "done"
            /\ UNCHANGED unlocked_ops
       ELSE UNCHANGED <<ready_pool, init_pc, unlocked_ops>>
    /\ UNCHANGED <<active_sessions, stopped_containers, lockq, shutdown_flag, stops,
                   callerVars, sdVars, rpVars, histVars>>

\* -------------------------------------------------------------- allocate
\* A faulty allocate that forgets to create the replacement task.
allocate_spawns_never(ok) == 0

\* A faulty allocate whose create_task sits in a finally block.
allocate_spawns_always(ok) == 1

\* How many replacement tasks an allocate call creates: create_task comes
\* after the "async with" block, which a failed on-demand creation leaves by
\* raising.
allocate_spawns(ok) == IF ok THEN 1 ELSE 0

\* self.active_sessions[session_id] = container, the lock is released,
\* asyncio.create_task(self._spawn_replacement()), return container.
\* q is the lock queue behind the caller.
AllocateBind(p, s, c, q) ==
    /\ active_sessions' = active_put(active_sessions, s, c)
    /\ lockq' = q
    /\ rp_scheduled' = rp_scheduled + allocate_spawns(TRUE)
    /\ pc' = [pc EXCEPT ![p] = "idle"]
    /\ arg' = [arg EXCEPT ![p] = NoSession]
    /\ container' = [container EXCEPT ![p] = None]
    /\ UNCHANGED raised
    /\ bound' = bound \cup {c}
    /\ holder' = [holder EXCEPT ![c] = s]
    /\ nAllocOk' = nAllocOk + 1
    /\ UNCHANGED <<released, sd_seen>>

\* The body of "async with self._lock" in allocate, up to its first suspension.
AllocateSection(p, s, q) ==
    IF ready_pool # <<>>
    THEN /\ ready_pool' = ready_pop(ready_pool).rest
         /\ AllocateBind(p, s, ready_pop(ready_pool).c, q)
         /\ UNCHANGED <<created, status>>
    ELSE \* await self._create_container_sync(), the lock held
         /\ pc' = [pc EXCEPT ![p] = "alloc_create"]
         /\ arg' = [arg EXCEPT ![p] = s]
         /\ lockq' = <<Me(p)>> \o q
         /\ UNCHANGED <<ready_pool, active_sessions, created, status, container, raised,
                        rp_scheduled, histVars>>

AllocateCall(p, s) ==
    /\ Serving /\ pc[p] = "idle" /\ calls < budget
    /\ calls' = calls + 1
    /\ IF LockFree
       THEN AllocateSection(p, s, <<>>)
       ELSE /\ lockq' = Append(lockq, Me(p))
            /\ pc' = [pc EXCEPT ![p] = "alloc_wait"]
            /\ arg' = [arg EXCEPT ![p] = s]
            /\ UNCHANGED <<ready_pool, active_sessions, created, status, container, raised,
                           rp_scheduled, histVars>>
    /\ UNCHANGED <<stopped_containers, shutdown_flag, stops, initVars, sdVars,
                   rp_creating, rp_stop>>

AllocateResume(p) ==
    /\ pc[p] = "alloc_wait" /\ Holds(Me(p))
    /\ AllocateSection(p, arg[p], Tail(lockq))
    /\ UNCHANGED <<stopped_containers, shutdown_flag, stops, initVars, calls, sdVars,
                   rp_creating, rp_stop>>

\* A faulty allocate that keeps the lock when the creation raises.
async_with_exit_keeps(q) == q

\* async with self._lock: an exception that leaves the block releases the
\* lock, and the next waiter is its holder
async_with_exit(q) == Tail(q)

\* The on-demand creation returns or raises.
AllocateCreateDone(p, r1, r2) ==
    LET res == _create_container(r1, r2) IN
    /\ pc[p] = "alloc_create"
    /\ res.ok => created < capacity
    /\ IF res.ok
       THEN /\ RuntimeCreates
            /\ AllocateBind(p, arg[p], NewSandbox, Tail(lockq))
       ELSE \* raise RuntimeError("Container allocation failed"): the lock is released
            /\ lockq' = async_with_exit(lockq)
            /\ pc' = [pc EXCEPT ![p] = "idle"]
            /\ arg' = [arg EXCEPT ![p] = NoSession]
            /\ raised' = raised \cup {"allocate"}
            /\ rp_scheduled' = rp_scheduled + allocate_spawns(FALSE)
            /\ UNCHANGED <<active_sessions, created, status, container, histVars>>
    /\ UNCHANGED <<ready_pool, stopped_containers, shutdown_flag, stops, initVars, calls,
                   sdVars, rp_creating, rp_stop>>

\* --------------------------------------------------------------- release
\* if session_id not in self.active_sessions: return
release_known(a, s) == s \in ActiveKeys(a)

\* The first "async with self._lock" of release and, when the session is
\* known, the call of container.stop outside the lock.
ReleaseSection(p, s, q) ==
    IF ~release_known(active_sessions, s)
    THEN \* logger.warning(...); return
         /\ lockq' = q
         /\ pc' = [pc EXCEPT ![p] = "idle"]
         /\ arg' = [arg EXCEPT ![p] = NoSession]
         /\ UNCHANGED raised
         /\ UNCHANGED <<active_sessions, container, stops, holder>>
    ELSE LET c == ActiveGet(active_sessions, s) IN
         /\ active_sessions' = active_pop(active_sessions, s)
         /\ lockq' = q
         /\ StopIssued(c)
         /\ pc' = [pc EXCEPT ![p] = "rel_stop"]
         /\ arg' = [arg EXCEPT ![p] = s]
         /\ container' = [container EXCEPT ![p] = c]
         /\ holder' = [x \in Sandboxes |-> IF holder[x] = s THEN NoSession ELSE holder[x]]
         /\ UNCHANGED raised

ReleaseCall(p, s) ==
    /\ Serving /\ pc[p] = "idle" /\ calls < budget
    /\ calls' = calls + 1
    /\ IF LockFree
       THEN ReleaseSection(p, s, <<>>)
       ELSE /\ lockq' = Append(lockq, Me(p))
            /\ pc' = [pc EXCEPT ![p] = "rel_wait"]
            /\ arg' = [arg EXCEPT ![p] = s]
            /\ UNCHANGED <<active_sessions, container, raised, stops, holder>>
    /\ UNCHANGED <<ready_pool, stopped_containers, shutdown_flag, created, status,
                   initVars, sdVars, rpVars, bound, nAllocOk, released, sd_seen>>

ReleaseResume(p) ==
    /\ pc[p] = "rel_wait" /\ Holds(Me(p))
    /\ ReleaseSection(p, arg[p], Tail(lockq))
    /\ UNCHANGED <<ready_pool, stopped_containers, shutdown_flag, created, status,
                   initVars, calls, sdVars, rpVars, bound, nAllocOk, released, sd_seen>>

\* release returns to its caller
ReleaseReturn(p) ==
    /\ released' = released \cup {container[p]}
    /\ pc' = [pc EXCEPT ![p] = "idle"]
    /\ arg' = [arg EXCEPT ![p] = NoSession]
    /\ container' = [container EXCEPT ![p] = None]
    /\ UNCHANGED raised

\* A faulty release that forgets the stopped list.
release_track_never(st, c, ok) == st

\* What release does with the stopped list once container.stop has returned
\* (ok) or raised: the append is inside the try, after the stop.
release_track(st, c, ok) == IF ok THEN stopped_append(st, c) ELSE st

\* container.stop returns or raises in release.
ReleaseStopDone(p, ok) ==
    /\ pc[p] = "rel_stop"
    /\ StopReturned(container[p], ok)
    /\ IF ok /\ ~LockFree
       THEN \* the second "async with self._lock" has to wait
            /\ lockq' = Append(lockq, Me(p))
            /\ pc' = [pc EXCEPT ![p] = "rel_wait2"]
            /\ UNCHANGED <<stopped_containers, arg, container, raised, released>>
       ELSE /\ stopped_containers' = release_track(stopped_containers, container[p], ok)
            /\ ReleaseReturn(p)
            /\ UNCHANGED lockq
    /\ UNCHANGED <<ready_pool, active_sessions, shutdown_flag, created, stops,
                   initVars, calls, sdVars, rpVars, bound, holder, nAllocOk, sd_seen>>

ReleaseResume2(p) ==
    /\ pc[p] = "rel_wait2" /\ Holds(Me(p))
    /\ stopped_containers' = release_track(stopped_containers, container[p], TRUE)
    /\ lockq' = Tail(lockq)
    /\ ReleaseReturn(p)
    /\ UNCHANGED <<ready_pool, active_sessions, shutdown_flag, runtimeVars,
                   initVars, calls, sdVars, rpVars, bound, holder, nAllocOk, sd_seen>>

\* -------------------------------------------------------------- shutdown
\* What shutdown and _cleanup_ready_containers do with the stopped list once
\* container.stop has returned (ok) or raised.
shutdown_track(st, c, ok) == IF ok THEN stopped_append(st, c) ELSE st

\* _cleanup_ready_containers from its loop index i on: stop the next ready
\* sandbox, or clear the list, leave the lock and return from shutdown.
\* q is the lock queue behind shutdown.
ShutdownCleanupFrom(i, q) ==
    IF i <= Len(ready_pool)
    THEN /\ StopIssued(ready_pool[i])
         /\ lockq' = <<Sd>> \o q
         /\ sd_pc' = "sd_ready"
         /\ sd_i' = i
         /\ UNCHANGED ready_pool
    ELSE /\ ready_pool' = <<>>
         /\ lockq' = q
         /\ sd_pc' = "done"
         /\ sd_i' = 0
         /\ UNCHANGED stops

\* The loop over list(self.active_sessions.items()) from index i on: stop the
\* next active sandbox, or clear the map and go on to the ready sandboxes.
ShutdownActiveFrom(items, i, q) ==
    IF i <= Len(items)
    THEN /\ StopIssued(items[i][2])
         /\ lockq' = <<Sd>> \o q
         /\ sd_pc' = "sd_active"
         /\ sd_i' = i
         /\ UNCHANGED <<ready_pool, active_sessions, holder>>
    ELSE /\ active_sessions' = <<>>
         /\ holder' = [x \in Sandboxes |-> NoSession]
         /\ ShutdownCleanupFrom(1, q)

ShutdownSection(q) ==
    /\ sd_items' = active_sessions
    /\ ShutdownActiveFrom(active_sessions, 1, q)

\* shutdown() is called: the flag is set before the lock is asked for.
ShutdownCall ==
    /\ sd_pc = "idle" /\ init_pc \in {"idle", "done", "failed"} /\ calls < budget
    /\ calls' = calls + 1
    /\ shutdown_flag' = TRUE
    /\ sd_seen' = ActiveValues(active_sessions) \cup Range(ready_pool)
    /\ IF LockFree
       THEN ShutdownSection(<<>>)
       ELSE /\ lockq' = Append(lockq, Sd)
            /\ sd_pc' = "sd_wait"
            /\ UNCHANGED <<ready_pool, active_sessions, stops, sd_items, sd_i, holder>>
    /\ UNCHANGED <<stopped_containers, created, status, initVars, pc, arg, container, raised,
                   rpVars, bound, nAllocOk, released>>

ShutdownResume ==
    /\ sd_pc = "sd_wait" /\ Holds(Sd)
    /\ ShutdownSection(Tail(lockq))
    /\ UNCHANGED <<stopped_containers, shutdown_flag, created, status, initVars,
                   callerVars, rpVars, bound, nAllocOk, released, sd_seen>>

\* container.stop of an active sandbox returns or raises in shutdown.
ShutdownActiveStopDone(ok) ==
    /\ sd_pc = "sd_active"
    /\ StopReturned(sd_items[sd_i][2], ok)
    /\ stopped_containers' = shutdown_track(stopped_containers, sd_items[sd_i][2], ok)
    /\ ShutdownActiveFrom(sd_items, sd_i + 1, Tail(lockq))
    /\ UNCHANGED <<shutdown_flag, created, initVars, callerVars, sd_items, rpVars,
                   bound, nAllocOk, released, sd_seen>>

\* container.stop of a ready sandbox returns or raises in _cleanup_ready_containers.
ShutdownReadyStopDone(ok) ==
    /\ sd_pc = "sd_ready"
    /\ StopReturned(ready_pool[sd_i], ok)
    /\ stopped_containers' = shutdown_track(stopped_containers, ready_pool[sd_i], ok)
    /\ ShutdownCleanupFrom(sd_i + 1, Tail(lockq))
    /\ UNCHANGED <<active_sessions, shutdown_flag, created, initVars, callerVars,
                   sd_items, rpVars, histVars>>
\* ---------------------------------------------------- _spawn_replacement
\* A faulty replacement that never looks at the shutdown flag under the lock.
spawn_enqueues_always(flag) == TRUE

\* What a replacement does with its new sandbox under the lock: enqueue it
\* as ready (TRUE), or stop it because shutdown has begun (FALSE).
spawn_enqueues(flag) == ~flag

\* The "async with self._lock" of _spawn_replacement for its new sandbox c.
SpawnSection(c, q) ==
    IF spawn_enqueues(shutdown_flag)
    THEN /\ ready_pool' = Append(ready_pool, c)
         /\ lockq' = q
         /\ UNCHANGED <<stops, rp_stop>>
    ELSE \* await run_in_executor(None, container.stop, 10), the lock held
         /\ StopIssued(c)
         /\ rp_stop' = c
         /\ lockq' = <<Rp(c)>> \o q
         /\ UNCHANGED ready_pool

\* A task made by asyncio.create_task(self._spawn_replacement()) starts.
SpawnStart ==
    /\ rp_scheduled > 0
    /\ rp_scheduled' = rp_scheduled - 1
    /\ rp_creating' = IF shutdown_flag THEN rp_creating ELSE rp_creating + 1
    /\ UNCHANGED <<poolVars, runtimeVars, initVars, callerVars, sdVars, rp_stop, histVars>>

\* The creation of a replacement returns or raises (logged, not raised).
SpawnCreateDone(r1, r2) ==
    LET res == _create_container(r1, r2) IN
    /\ rp_creating > 0
    /\ res.ok => created < capacity
    /\ rp_creating' = rp_creating - 1
    /\ IF res.ok
       THEN /\ RuntimeCreates
            /\ IF LockFree
               THEN SpawnSection(NewSandbox, <<>>)
               ELSE /\ lockq' = Append(lockq, Rp(NewSandbox))
                    /\ UNCHANGED <<ready_pool, stops, rp_stop>>
       ELSE UNCHANGED <<ready_pool, lockq, created, status, stops, rp_stop>>
    /\ UNCHANGED <<active_sessions, stopped_containers, shutdown_flag, initVars,
                   callerVars, sdVars, rp_scheduled, histVars>>

SpawnResume ==
    /\ lockq # <<>> /\ Head(lockq).k = "spawn" /\ rp_stop = None
    /\ SpawnSection(Head(lockq).id, Tail(lockq))
    /\ UNCHANGED <<active_sessions, stopped_containers, shutdown_flag, created, status,
                   initVars, callerVars, sdVars, rp_scheduled, rp_creating, histVars>>

\* container.stop returns or raises in the replacement (the exception is logged).
SpawnStopDone(ok) ==
    /\ rp_stop # None
    /\ StopReturned(rp_stop, ok)
    /\ rp_stop' = None
    /\ lockq' = Tail(lockq)
    /\ UNCHANGED <<ready_pool, active_sessions, stopped_containers, shutdown_flag, created,
                   stops, initVars, callerVars, sdVars, rp_scheduled, rp_creating, histVars>>

\* ------------------------------------------------------------------ spec
Next ==
    \/ InitializeStart /\ UNCHANGED extVars
    \/ \E i \in 1..PoolSize, r1, r2 \in AttemptResults :
          InitializeTaskDone(i, r1, r2) /\ UNCHANGED <<budget, proxyVars, handlerVars, recorderVars, authVars, create_log, capacity, backendVars>>
    \/ \E p \in Callers, s \in SessionIds : AllocateCall(p, s) /\ UNCHANGED extVars
    \/ \E p \in Callers : AllocateResume(p) /\ UNCHANGED extVars
    \/ \E p \in Callers, r1, r2 \in AttemptResults : AllocateCreateDone(p, r1, r2) /\ UNCHANGED extVars
    \/ \E p \in Callers, s \in SessionIds : ReleaseCall(p, s) /\ UNCHANGED extVars
    \/ \E p \in Callers : ReleaseResume(p) /\ UNCHANGED extVars
    \/ \E p \in Callers, ok \in BOOLEAN : ReleaseStopDone(p, ok) /\ UNCHANGED extVars
    \/ \E p \in Callers : ReleaseResume2(p) /\ UNCHANGED extVars
    \/ ShutdownCall /\ UNCHANGED extVars
    \/ ShutdownResume /\ UNCHANGED extVars
    \/ \E ok \in BOOLEAN : ShutdownActiveStopDone(ok) /\ UNCHANGED extVars
    \/ \E ok \in BOOLEAN : ShutdownReadyStopDone(ok) /\ UNCHANGED extVars
    \/ SpawnStart /\ UNCHANGED extVars
    \/ \E r1, r2 \in AttemptResults : SpawnCreateDone(r1, r2) /\ UNCHANGED extVars
    \/ SpawnResume /\ UNCHANGED extVars
    \/ \E ok \in BOOLEAN : SpawnStopDone(ok) /\ UNCHANGED extVars

Spec == Init /\ [][Next]_vars

\* ------------------------------------------------------------- lifecycle
\* The pool's life as tests/integration/test_container_pool_lifecycle.py
\* (test_full_lifecycle) drives it: initialize, config.size allocates with
\* distinct session ids, then a release of each of them, with a runtime whose
\* creations and stops all succeed. Every call may come from any caller.
LifecycleIdNames == <<"s1", "s2", "s3", "s4">>
LifecycleIds == {LifecycleIdNames[i] : i \in 1..PoolSize}
LifecycleCalls == 2 * PoolSize

LifecycleInit ==
    /\ PoolInit
    /\ budget = LifecycleCalls
    /\ ProxyInit
    /\ HandlerInit
    /\ SideInit

LifecycleAllocate(p, s) ==
    /\ init_pc = "done" /\ calls < PoolSize
    /\ s \notin ActiveKeys(active_sessions)
    /\ AllocateCall(p, s)

LifecycleRelease(p, s) ==
    /\ nAllocOk = PoolSize /\ calls >= PoolSize
    /\ s \in ActiveKeys(active_sessions)
    /\ ReleaseCall(p, s)

LifecycleNext ==
    \/ InitializeStart /\ UNCHANGED extVars
    \/ \E i \in 1..PoolSize :
          InitializeTaskDone(i, "ok", "ok") /\ UNCHANGED <<budget, proxyVars, handlerVars, recorderVars, authVars, create_log, capacity, backendVars>>
    \/ \E p \in Callers, s \in LifecycleIds : LifecycleAllocate(p, s) /\ UNCHANGED extVars
    \/ \E p \in Callers, s \in LifecycleIds : LifecycleRelease(p, s) /\ UNCHANGED extVars
    \/ \E p \in Callers : ReleaseStopDone(p, TRUE) /\ UNCHANGED extVars
    \/ SpawnStart /\ UNCHANGED extVars
    \/ SpawnCreateDone("ok", "ok") /\ UNCHANGED extVars

LifecycleSpec == LifecycleInit /\ [][LifecycleNext]_vars

\* ------------------------------------------------------------------ proxy
\* ContainerProxy of src/src/hermes/session/proxy.py, its two streaming tasks
\* and the coroutine that calls it. A task is "none" (not created),
\* "scheduled" (created, its coroutine not yet started), at one of its awaits
\* ("read", "send", "retry_sleep", "retry_send", "sleep"), or finished:
\* "done" (returned), "cancelled" (ended by CancelledError) or "failed" (ended
\* by another exception).
MaxStopCalls == 2
Ssh == "ssh_to_container"
Ctr == "container_to_ssh"
Awaiting == {"read", "send", "retry_sleep", "retry_send", "sleep"}
\* task.done(): "never_ran" is a task cancelled before its coroutine ran
Finished == {"done", "cancelled", "failed", "never_ran"}
\* the coroutine ran and has left its try/finally
Exited == {"done", "cancelled", "failed"}

\* The event loop runs its callbacks in the order they were queued: the two
\* tasks start() creates take their first step, ssh_to_container first,
\* before anything queued later runs (a wake-up of the caller, or the
\* completion of an await of the first task).
TasksStarted == \A l \in Loops : task[l] # "scheduled"
CallerRuns == (task[Ssh] = "scheduled") <=> (task[Ctr] = "scheduled")

\* A faulty finally clause that skips the event on cancellation.
exit_signals_unless_cancelled(e) == e # "cancelled"

\* finally: self._shutdown_event.set()
exit_signals(e) == TRUE

\* A faulty loop with no "except Exception" clause.
loop_catches_named(e) == e \in {"reset", "broken_pipe"}

\* except ConnectionResetError / except BrokenPipeError / except Exception:
\* every exception but CancelledError, which is a BaseException.
loop_catches(e) == e # "cancelled"

\* A loop leaves its try block by e: "return" (break, or the while condition
\* is false), an exception, or "cancelled". finally: self._shutdown_event.set()
LoopExit(l, e) ==
    /\ task' = [task EXCEPT ![l] = IF e = "return" THEN "done"
                                   ELSE IF e = "cancelled" THEN "cancelled"
                                   ELSE IF loop_catches(e) THEN "done" ELSE "failed"]
    /\ _shutdown_event' = (_shutdown_event \/ exit_signals(e))
    /\ cancel_req' = [cancel_req EXCEPT ![l] = FALSE]
    /\ exit_by' = [exit_by EXCEPT ![l] = e]

\* while self._running: the next read, or the end of the loop
LoopIterate(l) ==
    IF _running
    THEN task' = [task EXCEPT ![l] = "read"] /\ UNCHANGED <<_shutdown_event, cancel_req, exit_by>>
    ELSE LoopExit(l, "return")

\* chunk_log[l] holds the calls loop l has made for the chunk it has in
\* hand, with the results of its writes. A chunk that was forwarded, or that
\* a cancelled loop drops, leaves the log empty; a chunk whose forwarding
\* failed stays in it.
NewChunk(l, made) == chunk_log' = [chunk_log EXCEPT ![l] = made]
Logged(l, made) == chunk_log' = [chunk_log EXCEPT ![l] = @ \o made]

\* The event loop runs a created task for the first time. A task cancelled
\* before that gets CancelledError before its coroutine has entered the try
\* block: it ends without running any of its code.
LoopStart(l) ==
    /\ task[l] = "scheduled"
    /\ l = Ctr => task[Ssh] # "scheduled"
    /\ IF cancel_req[l]
       THEN /\ task' = [task EXCEPT ![l] = "never_ran"]
            /\ cancel_req' = [cancel_req EXCEPT ![l] = FALSE]
            /\ UNCHANGED <<_shutdown_event, exit_by>>
       ELSE LoopIterate(l)
    /\ UNCHANGED <<exec_socket, _running, cl_pc, p_raised, waited, stop_calls, closes,
                   recorder, chunk_log, unaccepted>>

\* CancelledError is raised at the await the task is suspended in.
LoopCancelled(l) ==
    /\ task[l] \in Awaiting /\ cancel_req[l]
    /\ LoopExit(l, "cancelled")
    /\ NewChunk(l, <<>>)
    /\ UNCHANGED <<exec_socket, _running, cl_pc, p_raised, waited, stop_calls, closes,
                   recorder, unaccepted>>

\* A faulty loop that forwards a chunk before it records it.
ssh_chunk_calls_send_first(rec) ==
    IF rec THEN <<"read", "sock_sendall", "record_input">> ELSE <<"read", "sock_sendall">>

\* what _ssh_to_container does with a chunk it has read, up to its next await:
\* if self.recorder: self.recorder.record_input(data), then sock_sendall
ssh_chunk_calls(rec) ==
    IF rec THEN <<"read", "record_input", "sock_sendall">> ELSE <<"read", "sock_sendall">>

\* what _container_to_ssh does with a chunk it has read: if self.recorder:
\* self.recorder.record_output(data), then self.process.stdout.write(data)
ctr_chunk_calls(rec) ==
    IF rec THEN <<"sock_recv", "record_output", "write">> ELSE <<"sock_recv", "write">>

\* A faulty loop that retries as long as the channel would block.
retries_always(o, attempt) == o = "would_block"

\* except BlockingIOError: encloses the first sock_sendall only; the second
\* one is made inside the except clause
retries(o, attempt) == o = "would_block" /\ attempt = 1

\* A faulty loop that does not wait for the transport.
awaits_drain_never(w) == FALSE

\* await self.process.stdout.drain() follows a write that returned
awaits_drain(w) == w = "ok"

\* data = await self.process.stdin.read(4096)
SshReadResults == {"data", "eof", "reset", "broken_pipe", "error"}
SshReadDone(o) ==
    /\ task[Ssh] = "read" /\ ~cancel_req[Ssh] /\ TasksStarted
    /\ IF o = "data"
       THEN \* recorder.record_input(data) never raises; sock_sendall is awaited
            /\ task' = [task EXCEPT ![Ssh] = "send"]
            /\ NewChunk(Ssh, ssh_chunk_calls(recorder))
            /\ UNCHANGED <<_shutdown_event, cancel_req, exit_by>>
       ELSE LoopExit(Ssh, IF o = "eof" THEN "return" ELSE o) /\ UNCHANGED chunk_log
    /\ UNCHANGED <<exec_socket, _running, cl_pc, p_raised, waited, stop_calls, closes,
                   recorder, unaccepted>>

\* a sock_sendall of the chunk has ended with o: the next chunk, the sleep
\* before the retry, or the end of the loop
SendEnded(o, attempt) ==
    IF o = "ok"
    THEN LoopIterate(Ssh) /\ NewChunk(Ssh, <<>>)
    ELSE IF retries(o, attempt)
    THEN \* except BlockingIOError: await asyncio.sleep(0.01)
         /\ task' = [task EXCEPT ![Ssh] = "retry_sleep"]
         /\ Logged(Ssh, <<o, "sleep">>)
         /\ UNCHANGED <<_shutdown_event, cancel_req, exit_by>>
    ELSE LoopExit(Ssh, o) /\ Logged(Ssh, <<o>>)

\* await loop.sock_sendall(self.exec_socket, data)
SendResults == {"ok", "would_block", "reset", "broken_pipe", "error"}
SshSendDone(o) ==
    /\ task[Ssh] = "send" /\ ~cancel_req[Ssh]
    /\ SendEnded(o, 1)
    /\ UNCHANGED <<exec_socket, _running, cl_pc, p_raised, waited, stop_calls, closes,
                   recorder, unaccepted>>

\* the sleep is over: await loop.sock_sendall(self.exec_socket, data) again
SshRetrySleepDone ==
    /\ task[Ssh] = "retry_sleep" /\ ~cancel_req[Ssh]
    /\ task' = [task EXCEPT ![Ssh] = "retry_send"]
    /\ Logged(Ssh, <<"sock_sendall">>)
    /\ UNCHANGED <<exec_socket, _running, _shutdown_event, cancel_req, cl_pc, p_raised, waited, exit_by,
                   stop_calls, closes, recorder, unaccepted>>

\* the one retry: whatever it raises, BlockingIOError included, leaves the loop
SshRetrySendDone(o) ==
    /\ task[Ssh] = "retry_send" /\ ~cancel_req[Ssh]
    /\ SendEnded(o, 2)
    /\ UNCHANGED <<exec_socket, _running, cl_pc, p_raised, waited, stop_calls, closes,
                   recorder, unaccepted>>

\* data = await loop.sock_recv(self.exec_socket, 4096); w is what
\* self.process.stdout.write(data) does with the data read
CtrReadResults == {"data", "eof", "would_block", "reset", "broken_pipe", "error"}
WriteResults == {"ok", "broken_pipe", "error"}
CtrReadDone(o, w) ==
    /\ task[Ctr] = "read" /\ ~cancel_req[Ctr]
    /\ IF o = "data"
       THEN /\ unaccepted' = unaccepted + 1
            /\ IF w = "ok"
               THEN IF awaits_drain(w)
                    THEN \* await self.process.stdout.drain()
                         /\ task' = [task EXCEPT ![Ctr] = "send"]
                         /\ NewChunk(Ctr, ctr_chunk_calls(recorder) \o <<"drain">>)
                         /\ UNCHANGED <<_shutdown_event, cancel_req, exit_by>>
                    ELSE LoopIterate(Ctr) /\ NewChunk(Ctr, ctr_chunk_calls(recorder))
               ELSE LoopExit(Ctr, w) /\ NewChunk(Ctr, ctr_chunk_calls(recorder) \o <<w>>)
       ELSE /\ UNCHANGED <<chunk_log, unaccepted>>
            /\ IF o = "would_block"
               THEN \* except BlockingIOError: await asyncio.sleep(0.01); continue
                    task' = [task EXCEPT ![Ctr] = "sleep"] /\ UNCHANGED <<_shutdown_event, cancel_req, exit_by>>
               ELSE LoopExit(Ctr, IF o = "eof" THEN "return" ELSE o)
    /\ UNCHANGED <<exec_socket, _running, cl_pc, p_raised, waited, stop_calls, closes, recorder>>

CtrSleepDone ==
    /\ task[Ctr] = "sleep" /\ ~cancel_req[Ctr]
    /\ LoopIterate(Ctr)
    /\ UNCHANGED <<exec_socket, _running, cl_pc, p_raised, waited, stop_calls, closes,
                   recorder, chunk_log, unaccepted>>

\* drain() has returned: the transport has taken the chunk
DrainResults == {"ok", "reset", "broken_pipe", "error"}
CtrDrainDone(o) ==
    /\ task[Ctr] = "send" /\ ~cancel_req[Ctr]
    /\ IF o = "ok"
       THEN LoopIterate(Ctr) /\ NewChunk(Ctr, <<>>)
       ELSE LoopExit(Ctr, o) /\ Logged(Ctr, <<o>>)
    /\ unaccepted' = IF o = "ok" THEN unaccepted - 1 ELSE unaccepted
    /\ UNCHANGED <<exec_socket, _running, cl_pc, p_raised, waited, stop_calls, closes, recorder>>

\* start(): exec_run and the socket setup are synchronous calls inside one
\* try block. "exec_fail": exec_run raises; "setup_fail": exec_socket is
\* assigned and setblocking raises. Either way RuntimeError is raised before
\* self._running = True and before the tasks are created.
StartResults == {"ok", "exec_fail", "setup_fail"}

\* whether start reaches self._running = True
start_runs(o) == o = "ok"

StartCall(o) ==
    /\ cl_pc = "idle" /\ exec_socket = "none" /\ task[Ssh] = "none" /\ "start" \notin p_raised
    /\ exec_socket' = IF o = "exec_fail" THEN "none" ELSE "open"
    /\ _running' = start_runs(o)
    /\ IF o = "ok"
       THEN /\ task' = [l \in Loops |-> "scheduled"]
            /\ UNCHANGED p_raised
       ELSE /\ p_raised' = p_raised \cup {"start"}
            /\ UNCHANGED task
    /\ UNCHANGED <<_shutdown_event, cancel_req, cl_pc, waited, exit_by, stop_calls, closes,
                   chunk_log, unaccepted>>

\* wait_completion(): await self._shutdown_event.wait(), which returns at
\* once when the event is set
WaitCompletionCall ==
    /\ cl_pc = "idle" /\ CallerRuns
    /\ IF _shutdown_event
       THEN waited' = TRUE /\ UNCHANGED cl_pc
       ELSE cl_pc' = "wait_completion" /\ UNCHANGED waited
    /\ UNCHANGED <<exec_socket, _running, _shutdown_event, task, cancel_req, p_raised, exit_by, stop_calls, closes,
                   recorder, chunk_log, unaccepted>>

WaitCompletionReturn ==
    /\ cl_pc = "wait_completion" /\ _shutdown_event /\ TasksStarted
    /\ cl_pc' = "idle"
    /\ waited' = TRUE
    /\ UNCHANGED <<exec_socket, _running, _shutdown_event, task, cancel_req, p_raised, exit_by, stop_calls, closes,
                   recorder, chunk_log, unaccepted>>

\* self.exec_socket.close() returns or raises
CloseResults == {"ok", "error"}

\* stop(), from "# Close exec socket" on: an exception of close() is logged
StopClose(c) ==
    /\ IF exec_socket = "none"
       THEN UNCHANGED <<exec_socket, closes>>
       ELSE /\ exec_socket' = IF c = "ok" THEN "closed" ELSE "close_failed"
            /\ closes' = closes + 1
    /\ cl_pc' = "idle"
    /\ UNCHANGED <<cancel_req, p_raised>>

\* A faulty stop that cancels no task and waits for none.
task_pending_never(t) == FALSE

\* task and not task.done()
task_pending(t) == t \in Awaiting \cup {"scheduled"}

\* stop(), from the second "if ... and not ...done()" on
StopAfterSsh(c) ==
    IF task_pending(task[Ctr])
    THEN /\ cancel_req' = [cancel_req EXCEPT ![Ctr] = TRUE]
         /\ cl_pc' = "stop_await_ctr"
         /\ UNCHANGED <<exec_socket, p_raised, closes>>
    ELSE StopClose(c)

\* A faulty stop without its "if not self._running: return".
stop_returns_early_never(running) == FALSE

\* if not self._running: return
stop_returns_early(running) == ~running

\* A faulty stop that leaves the running flag as it was.
stop_running_kept(running) == running

\* self._running = False
stop_running(running) == FALSE

StopCall(c) ==
    /\ cl_pc = "idle" /\ CallerRuns
    /\ stop_calls < MaxStopCalls
    /\ stop_calls' = stop_calls + 1
    /\ IF stop_returns_early(_running)
       THEN UNCHANGED <<exec_socket, _running, cancel_req, cl_pc, p_raised, closes>>
       ELSE /\ _running' = stop_running(_running)
            /\ IF task_pending(task[Ssh])
               THEN /\ cancel_req' = [cancel_req EXCEPT ![Ssh] = TRUE]
                    /\ cl_pc' = "stop_await_ssh"
                    /\ UNCHANGED <<exec_socket, p_raised, closes>>
               ELSE StopAfterSsh(c)
    /\ UNCHANGED <<_shutdown_event, task, waited, exit_by, recorder, chunk_log, unaccepted>>

\* "await self.ssh_to_container_task" returns: CancelledError is caught, any
\* other exception of the task leaves stop()
StopAwaitSshDone(c) ==
    /\ cl_pc = "stop_await_ssh" /\ task[Ssh] \in Finished /\ TasksStarted
    /\ IF task[Ssh] = "failed"
       THEN /\ p_raised' = p_raised \cup {"stop"}
            /\ cl_pc' = "idle"
            /\ UNCHANGED <<exec_socket, cancel_req, closes>>
       ELSE StopAfterSsh(c)
    /\ UNCHANGED <<_running, _shutdown_event, task, waited, exit_by, stop_calls,
                   recorder, chunk_log, unaccepted>>

StopAwaitCtrDone(c) ==
    /\ cl_pc = "stop_await_ctr" /\ task[Ctr] \in Finished /\ TasksStarted
    /\ IF task[Ctr] = "failed"
       THEN /\ p_raised' = p_raised \cup {"stop"}
            /\ cl_pc' = "idle"
            /\ UNCHANGED <<exec_socket, cancel_req, closes>>
       ELSE StopClose(c)
    /\ UNCHANGED <<_running, _shutdown_event, task, waited, exit_by, stop_calls,
                   recorder, chunk_log, unaccepted>>

\* The proxy with a caller that makes any call at any time it is not
\* suspended in one (tests/unit/test_container_proxy.py).
ProxySpecInit ==
    /\ PoolInit
    /\ budget = 0
    /\ \E rec \in BOOLEAN : ProxyInitWith(rec)
    /\ HandlerInit
    /\ SideInit

ProxyNext ==
    \/ \E o \in StartResults : StartCall(o) /\ UNCHANGED <<nonProxyVars, recorder>>
    \/ WaitCompletionCall /\ UNCHANGED nonProxyVars
    \/ WaitCompletionReturn /\ UNCHANGED nonProxyVars
    \/ \E c \in CloseResults : StopCall(c) /\ UNCHANGED nonProxyVars
    \/ \E c \in CloseResults : StopAwaitSshDone(c) /\ UNCHANGED nonProxyVars
    \/ \E c \in CloseResults : StopAwaitCtrDone(c) /\ UNCHANGED nonProxyVars
    \/ \E l \in Loops : LoopStart(l) /\ UNCHANGED nonProxyVars
    \/ \E l \in Loops : LoopCancelled(l) /\ UNCHANGED nonProxyVars
    \/ \E o \in SshReadResults : SshReadDone(o) /\ UNCHANGED nonProxyVars
    \/ \E o \in SendResults : SshSendDone(o) /\ UNCHANGED nonProxyVars
    \/ SshRetrySleepDone /\ UNCHANGED nonProxyVars
    \/ \E o \in SendResults : SshRetrySendDone(o) /\ UNCHANGED nonProxyVars
    \/ \E o \in CtrReadResults, w \in WriteResults : CtrReadDone(o, w) /\ UNCHANGED nonProxyVars
    \/ CtrSleepDone /\ UNCHANGED nonProxyVars
    \/ \E o \in DrainResults : CtrDrainDone(o) /\ UNCHANGED nonProxyVars

ProxySpec == ProxySpecInit /\ [][ProxyNext]_vars

\* ------------------------------------------------------ session handler
\* container_session_handler (sandtrap/__main__.py) run as the task that
\* shell_requested creates (server/asyncssh_backend.py). The handler is pool
\* caller Handler with session id Sid; a second session uses the pool next
\* to it. Only one coroutine runs at a time: while the handler is between
\* two of its suspension points nothing else takes a step.
Handler == 1
Other == 2
Sid == "s1"
OtherSid == "s2"
SessionTimeout == 1
\* the handler's allocate and release, and the other session's allocate
SessionCalls == 2 + 1

HandlerSuspended ==
    \/ h_pc \in {"init", "done"}
    \/ h_pc = "allocate" /\ pc[Handler] # "idle"
    \/ h_pc = "wait" /\ cl_pc = "wait_completion"
    \/ h_pc = "stop" /\ cl_pc # "idle"
    \/ h_pc = "release" /\ pc[Handler] # "idle"

\* the lock queue without the waiter or holder e
LockLeft(q, e) == SelectSeq(q, LAMBDA x : x # e)

\* CancelledError reaches a caller suspended in allocate: waiting for the
\* lock, or holding it while the executor creates a sandbox on demand. The
\* executor's thread is not interrupted: made tells whether the runtime
\* still creates the sandbox, which nothing refers to.
AllocateCancelled(p, made) ==
    /\ pc[p] \in {"alloc_wait", "alloc_create"}
    /\ lockq' = LockLeft(lockq, Me(p))
    /\ IF pc[p] = "alloc_create" /\ made
       THEN created < capacity /\ RuntimeCreates
       ELSE UNCHANGED <<created, status>>
    /\ pc' = [pc EXCEPT ![p] = "idle"]
    /\ arg' = [arg EXCEPT ![p] = NoSession]
    /\ UNCHANGED <<ready_pool, active_sessions, stopped_containers, shutdown_flag, stops,
                   initVars, container, raised, calls, sdVars, rpVars, histVars>>

\* CancelledError reaches a caller suspended in release: waiting for the
\* lock the first time, waiting for container.stop in the executor (whose
\* thread goes on: ok tells how the stop ends), or waiting for the lock the
\* second time.
ReleaseCancelled(p, ok) ==
    /\ pc[p] \in {"rel_wait", "rel_stop", "rel_wait2"}
    /\ lockq' = LockLeft(lockq, Me(p))
    /\ IF pc[p] = "rel_stop"
       THEN StopReturned(container[p], ok)
       ELSE UNCHANGED status
    /\ pc' = [pc EXCEPT ![p] = "idle"]
    /\ arg' = [arg EXCEPT ![p] = NoSession]
    /\ container' = [container EXCEPT ![p] = None]
    /\ UNCHANGED <<ready_pool, active_sessions, stopped_containers, shutdown_flag, created,
                   stops, initVars, raised, calls, sdVars, rpVars, histVars>>

\* container = await container_pool.allocate(session_info.session_id)
HandlerStart ==
    /\ h_pc = "init"
    /\ AllocateCall(Handler, Sid)
    /\ h_pc' = "allocate"
    /\ UNCHANGED <<budget, proxyVars, h_container, h_rec, h_cancelled, h_releases, elapsed>>

\* allocate has returned a sandbox, or raised RuntimeError: the message is
\* written and, with no proxy, no recorder and no container, the finally
\* clause does nothing
HandlerAllocated ==
    /\ h_pc = "allocate" /\ pc[Handler] = "idle"
    /\ IF Sid \in ActiveKeys(active_sessions)
       THEN /\ h_container' = ActiveGet(active_sessions, Sid)
            /\ h_pc' = "setup"
       ELSE /\ h_pc' = "done"
            /\ UNCHANGED h_container
    /\ UNCHANGED <<allPoolVars, budget, proxyVars, h_rec, h_cancelled, h_releases, elapsed>>

\* Steps 2-4: the recorder, if recording is configured (rc), the proxy and
\* proxy.start(); RuntimeError of start goes to the finally clause
HandlerSetup(rc, o) ==
    /\ h_pc = "setup"
    /\ h_rec' = IF rc THEN <<"start">> ELSE <<>>
    /\ recorder' = rc
    /\ StartCall(o)
    /\ h_pc' = IF o = "ok" THEN "started" ELSE "finally"
    /\ UNCHANGED <<allPoolVars, budget, h_container, h_cancelled, h_releases, elapsed>>

\* Step 5: await proxy.wait_completion(), with nothing around it
HandlerWait ==
    /\ h_pc = "started"
    /\ WaitCompletionCall
    /\ h_pc' = IF _shutdown_event THEN "finally" ELSE "wait"
    /\ UNCHANGED <<allPoolVars, budget, h_container, h_rec, h_cancelled, h_releases, elapsed>>

HandlerWaitReturn ==
    /\ h_pc = "wait"
    /\ WaitCompletionReturn
    /\ h_pc' = "finally"
    /\ UNCHANGED <<allPoolVars, budget, h_container, h_rec, h_cancelled, h_releases, elapsed>>

\* time passes while the handler is suspended in wait_completion
Tick ==
    /\ h_pc = "wait" /\ cl_pc = "wait_completion" /\ TasksStarted
    /\ elapsed <= SessionTimeout
    /\ elapsed' = elapsed + 1
    /\ UNCHANGED <<allPoolVars, budget, proxyVars, h_pc, h_container, h_rec, h_cancelled,
                   h_releases>>

\* finally: if proxy: await proxy.stop()
HandlerFinally ==
    /\ h_pc = "finally"
    /\ \E c \in CloseResults : StopCall(c)
    /\ h_pc' = "stop"
    /\ UNCHANGED <<allPoolVars, budget, h_container, h_rec, h_cancelled, h_releases, elapsed>>

\* the awaits of the two tasks inside proxy.stop()
HandlerStopResume ==
    /\ h_pc = "stop"
    /\ \E c \in CloseResults : StopAwaitSshDone(c) \/ StopAwaitCtrDone(c)
    /\ UNCHANGED <<allPoolVars, budget, handlerVars>>

\* A faulty finally clause that never releases.
handler_releases_never(c) == FALSE

\* if container: await container_pool.release(session_info.session_id)
handler_releases(c) == c # None

\* A faulty finally clause that writes the sidecar before it closes the
\* transcript.
finally_recorder_calls_metadata_first(rec) ==
    IF rec THEN <<"write_metadata", "stop">> ELSE <<>>

\* if recorder: recorder.stop(); recorder.write_metadata()
finally_recorder_calls(rec) ==
    IF rec THEN <<"stop", "write_metadata">> ELSE <<>>

\* A faulty finally clause that calls proxy.stop() without awaiting it.
stop_returned_at_once(c) == TRUE

\* await proxy.stop(): the handler goes on when the call has returned
stop_returned(c) == c = "idle"

\* proxy.stop() has returned: recorder.stop(), recorder.write_metadata()
\* (neither raises) and the release; an exception of stop() leaves the
\* finally clause at once
HandlerStopped ==
    /\ h_pc = "stop" /\ stop_returned(cl_pc)
    /\ IF "stop" \in p_raised
       THEN /\ h_pc' = "done"
            /\ UNCHANGED <<allPoolVars, h_rec, h_releases>>
       ELSE /\ h_rec' = h_rec \o finally_recorder_calls(recorder)
            /\ IF handler_releases(h_container)
               THEN /\ ReleaseCall(Handler, Sid)
                    /\ h_releases' = h_releases + 1
                    /\ h_pc' = "release"
               ELSE /\ h_pc' = "done"
                    /\ UNCHANGED <<allPoolVars, h_releases>>
    /\ UNCHANGED <<budget, proxyVars, h_container, h_cancelled, elapsed>>

HandlerReleased ==
    /\ h_pc = "release" /\ pc[Handler] = "idle"
    /\ h_pc' = "done"
    /\ UNCHANGED <<allPoolVars, budget, proxyVars, h_container, h_rec, h_cancelled,
                   h_releases, elapsed>>

\* connection_lost: self._task.cancel(), once, while the handler task is
\* suspended. In allocate, wait_completion or release CancelledError is
\* raised at the await and only the finally clause is left to run. Inside
\* proxy.stop() the handler awaits a task it has cancelled: cancel() is
\* passed on to that task, and stop() catches the CancelledError.
ConnectionLost(b) ==
    /\ ~h_cancelled /\ TasksStarted
    /\ h_cancelled' = TRUE
    /\ \/ /\ h_pc = "allocate" /\ pc[Handler] # "idle"
          /\ AllocateCancelled(Handler, b)
          /\ h_pc' = "done"
          /\ UNCHANGED proxyVars
       \/ /\ h_pc = "wait" /\ cl_pc = "wait_completion"
          /\ cl_pc' = "idle"
          /\ h_pc' = "finally"
          /\ UNCHANGED <<allPoolVars, exec_socket, _running, _shutdown_event, task,
                         cancel_req, p_raised, waited, exit_by, stop_calls, closes,
                         recorder, chunk_log, unaccepted>>
       \/ /\ h_pc = "stop" /\ cl_pc # "idle"
          /\ UNCHANGED <<allPoolVars, proxyVars, h_pc>>
       \/ /\ h_pc = "release" /\ pc[Handler] # "idle"
          /\ ReleaseCancelled(Handler, b)
          /\ h_pc' = "done"
          /\ UNCHANGED proxyVars
    /\ UNCHANGED <<budget, h_container, h_rec, h_releases, elapsed>>

\* the calls the handler has still to make to the pool
HandlerCallsLeft ==
    IF h_pc = "init" THEN 2
    ELSE IF h_pc # "done" /\ h_releases = 0 THEN 1 ELSE 0

SessionInit ==
    /\ PoolInit
    /\ budget = SessionCalls
    /\ ProxyInit
    /\ HandlerInit
    /\ SideInit

SessionNext ==
    \/ HandlerStart /\ UNCHANGED sideVars
    \/ HandlerAllocated /\ UNCHANGED sideVars
    \/ (\E rc \in BOOLEAN, o \in StartResults : HandlerSetup(rc, o)) /\ UNCHANGED sideVars
    \/ HandlerWait /\ UNCHANGED sideVars
    \/ HandlerWaitReturn /\ UNCHANGED sideVars
    \/ HandlerFinally /\ UNCHANGED sideVars
    \/ HandlerStopResume /\ UNCHANGED sideVars
    \/ HandlerStopped /\ UNCHANGED sideVars
    \/ HandlerReleased /\ UNCHANGED sideVars
    \/ (\E b \in BOOLEAN : ConnectionLost(b)) /\ UNCHANGED sideVars
    \/ HandlerSuspended /\ calls + HandlerCallsLeft < budget
          /\ AllocateCall(Other, OtherSid) /\ UNCHANGED extVars
    \/ HandlerSuspended /\ (\E p \in {Handler, Other} : AllocateResume(p)) /\ UNCHANGED extVars
    \/ HandlerSuspended /\ (\E p \in {Handler, Other}, r1, r2 \in AttemptResults :
                               AllocateCreateDone(p, r1, r2)) /\ UNCHANGED extVars
    \/ HandlerSuspended /\ (\E p \in {Handler, Other} : ReleaseResume(p)) /\ UNCHANGED extVars
    \/ HandlerSuspended /\ (\E p \in {Handler, Other}, ok \in BOOLEAN : ReleaseStopDone(p, ok))
          /\ UNCHANGED extVars
    \/ HandlerSuspended /\ (\E p \in {Handler, Other} : ReleaseResume2(p)) /\ UNCHANGED extVars
    \/ HandlerSuspended /\ SpawnStart /\ UNCHANGED extVars
    \/ HandlerSuspended /\ (\E r1, r2 \in AttemptResults : SpawnCreateDone(r1, r2))
          /\ UNCHANGED extVars
    \/ HandlerSuspended /\ SpawnResume /\ UNCHANGED extVars
    \/ HandlerSuspended /\ (\E l \in Loops : LoopStart(l)) /\ UNCHANGED nonProxyVars
    \/ HandlerSuspended /\ (\E l \in Loops : LoopCancelled(l)) /\ UNCHANGED nonProxyVars
    \/ HandlerSuspended /\ (\E o \in SshReadResults : SshReadDone(o)) /\ UNCHANGED nonProxyVars
    \/ HandlerSuspended /\ (\E o \in SendResults : SshSendDone(o)) /\ UNCHANGED nonProxyVars
    \/ HandlerSuspended /\ SshRetrySleepDone /\ UNCHANGED nonProxyVars
    \/ HandlerSuspended /\ (\E o \in SendResults : SshRetrySendDone(o)) /\ UNCHANGED nonProxyVars
    \/ HandlerSuspended /\ (\E o \in CtrReadResults, w \in WriteResults : CtrReadDone(o, w))
          /\ UNCHANGED nonProxyVars
    \/ HandlerSuspended /\ CtrSleepDone /\ UNCHANGED nonProxyVars
    \/ HandlerSuspended /\ (\E o \in DrainResults : CtrDrainDone(o)) /\ UNCHANGED nonProxyVars

SessionSpec == SessionInit /\ [][SessionNext]_vars

\* The same with the clock of the session timeout.
TimedSessionNext ==
    \/ SessionNext
    \/ Tick /\ UNCHANGED sideVars

TimedSessionSpec == SessionInit /\ [][TimedSessionNext]_vars

TypeOK ==
    /\ ready_pool \in Seq(Sandboxes)
    /\ \A i \in 1..Len(active_sessions) :
          active_sessions[i][1] \in SessionIds /\ active_sessions[i][2] \in Sandboxes
    /\ created \in 0..capacity

\* ---------------------------------------------------------------- claims
Count(s, x) == Cardinality({i \in 1..Len(s) : s[i] = x})
ReadySet == Range(ready_pool)
ActiveSet == ActiveValues(active_sessions)
StoppedSet == Range(stopped_containers)
Memberships(c) ==
    (IF c \in ReadySet THEN 1 ELSE 0) + (IF c \in ActiveSet THEN 1 ELSE 0)
    + (IF c \in StoppedSet THEN 1 ELSE 0)

\* C1: in every reachable pool state the ready queue, the values of the active
\* map and the sandboxes of the stopped list are pairwise disjoint.
C1_PairwiseDisjoint ==
    /\ ReadySet \cap ActiveSet = {}
    /\ ReadySet \cap StoppedSet = {}
    /\ ActiveSet \cap StoppedSet = {}

\* C2: the sandboxes returned by allocate calls are pairwise distinct (as many
\* different sandboxes as calls that returned one), and while the calls that
\* returned used pairwise distinct session ids and none of their sandboxes has
\* been released or shut down, each id is bound to its sandbox and the active
\* map has as many entries as calls returned.
C2_DistinctIds ==
    /\ \A c \in bound : holder[c] # NoSession
    /\ \A c, d \in bound : c # d => holder[c] # holder[d]
C2_DistinctSandboxes ==
    /\ Cardinality(bound) = nAllocOk
    /\ C2_DistinctIds =>
          /\ Len(active_sessions) = nAllocOk
          /\ \A c \in bound : ActiveGet(active_sessions, holder[c]) = c
\* two allocate calls with different ids have returned on a pool that had no
\* ready sandbox for the first of them
C2_Witness ==
    /\ init_pc = "idle" /\ nAllocOk = 2 /\ C2_DistinctIds
    /\ Len(active_sessions) = 2

\* C3: every sandbox whose creation has completed and that no operation in
\* progress is handing over (a pending gather, a replacement waiting for or
\* holding the lock, a release between its pop and its return) is in exactly
\* one of the ready queue, the active map and the stopped list.
InTransit(c) ==
    \/ init_pc = "gather" /\ \E i \in 1..PoolSize : init_tasks[i] = c
    \/ \E i \in 1..Len(lockq) : lockq[i] = Rp(c)
    \/ \E p \in Callers : pc[p] \in {"rel_stop", "rel_wait2"} /\ container[p] = c
C3_ExactlyOneCollection ==
    \A c \in 1..created : ~InTransit(c) => Memberships(c) = 1

\* C4: a sandbox that allocate has bound to a session is never in the ready
\* queue again.
C4_NeverReadyAgain == bound \cap ReadySet = {}
\* a bound sandbox has been released and stopped while the ready queue holds another one
C4_Witness == ready_pool # <<>> /\ bound \cap released \cap StoppedSet # {}

\* C5: every sandbox handed out under a session id and not yet released is the
\* value bound to that id in the active map.
C5_OneHolderPerSession ==
    \A c \in Sandboxes : holder[c] # NoSession => ActiveGet(active_sessions, holder[c]) = c

\* C6: once release has returned for the sandbox of an active session, the
\* sandbox is out of the active map and has exactly one entry in the stopped
\* list, whether its stop succeeded or not, and release has not raised.
C6_ReleaseAlwaysTracks ==
    /\ "release" \notin raised
    /\ \A c \in released : c \notin ActiveSet /\ Count(stopped_containers, c) = 1

\* C7: a release whose session id is not in the active map changes neither
\* the ready queue, the active map, the stopped list nor any sandbox, and does
\* not raise; and no sandbox is stopped more than once or has more than one
\* entry in the stopped list.
C7_ReleaseNoop(p, s) ==
    /\ s \notin ActiveKeys(active_sessions)
    /\ \/ ReleaseCall(p, s) /\ LockFree
       \/ ReleaseResume(p) /\ arg[p] = s
C8_InitializeAllOrNothing ==
    /\ init_pc = "done" /\ calls = 0 => Len(ready_pool) = PoolSize
    /\ init_pc = "failed" =>
          /\ ready_pool = <<>>
          /\ \A i \in 1..PoolSize : init_tasks[i] > 0 => status[init_tasks[i]] = "stopped"

\* C9: while an allocate waits for its on-demand creation nothing changes the
\* ready queue, the active map or the stopped list, and when that creation
\* fails the call raises, leaves the three collections as they are (its
\* session id is not inserted) and creates no replacement task.
C9_AllocateFailureClean ==
    [][\A p \in Callers :
          pc[p] = "alloc_create" =>
             IF pc'[p] = "alloc_create"
             THEN UNCHANGED <<ready_pool, active_sessions, stopped_containers>>
             ELSE IF nAllocOk' = nAllocOk + 1
             THEN ActiveGet(active_sessions', arg[p]) # None
             ELSE /\ "allocate" \in raised'
                  /\ UNCHANGED <<ready_pool, active_sessions, stopped_containers>>
                  /\ rp_scheduled' = rp_scheduled /\ rp_creating' = rp_creating]_vars
\* an allocate has failed on a pool that served another session before
C9_Witness == "allocate" \in raised /\ nAllocOk = 1 /\ active_sessions # <<>>

\* C10: once shutdown has returned, the ready queue is empty and every sandbox
\* that was active or ready when shutdown was called is out of the active map
\* and in the stopped list.
C10_ShutdownStopsAll ==
    sd_pc = "done" =>
       /\ ready_pool = <<>>
       /\ sd_seen \cap ActiveSet = {}
       /\ sd_seen \subseteq StoppedSet

\* C11: once the shutdown flag is set no step adds a sandbox to the ready
\* queue, a replacement task that starts afterwards creates nothing, and the
\* ready queue is empty whenever shutdown has returned.
C11_NoReadyAfterShutdown ==
    [][/\ sd_pc' = "done" => ready_pool' = <<>>
       /\ shutdown_flag =>
             /\ Range(ready_pool') \subseteq Range(ready_pool)
             /\ rp_scheduled' < rp_scheduled =>
                   rp_creating' = rp_creating /\ created' = created]_vars
\* shutdown has returned and a replacement created after the call has stopped
\* its sandbox instead of enqueuing it
C11_Witness ==
    /\ init_pc = "idle" /\ sd_pc = "done" /\ rp_stop = None
    /\ \E c \in 1..created : c \notin bound /\ c \notin sd_seen /\ stops[c] = 1

\* C12: the step in which an allocate returns a sandbox creates exactly one
\* replacement task and does not wait for it; the step in which a
\* replacement's creation fails changes none of the three collections,
\* creates no new replacement task, and makes no call raise.
C12_ReplacementFailed ==
    rp_creating' = rp_creating - 1 /\ created' = created
C12_ReplacementFireAndForget ==
    [][/\ nAllocOk' = nAllocOk + 1 =>
             /\ rp_scheduled' = rp_scheduled + 1
             /\ rp_creating' = rp_creating
             /\ \A p \in Callers : pc[p] # "idle" /\ pc'[p] = "idle" => arg[p] \in ActiveKeys(active_sessions')
       /\ C12_ReplacementFailed =>
             /\ UNCHANGED <<ready_pool, active_sessions, stopped_containers>>
             /\ UNCHANGED <<rp_scheduled, raised, pc, sd_pc>>]_vars
\* an allocate created its sandbox on demand and returned, and its
\* replacement has run and failed
C12_Witness ==
    /\ init_pc = "idle" /\ nAllocOk = 1 /\ created = 1 /\ ~shutdown_flag
    /\ rp_scheduled = 0 /\ rp_creating = 0 /\ lockq = <<>>

\* C13: every step leaves the entries of the stopped list where they are (the
\* list only grows at its end), and no allocate hands out a sandbox that is
\* in the stopped list.
C13_StoppedAppendOnly ==
    [][/\ Len(stopped_containers') >= Len(stopped_containers)
       /\ \A i \in 1..Len(stopped_containers) :
             stopped_containers'[i] = stopped_containers[i]
       /\ (ActiveSet' \ ActiveSet) \cap StoppedSet = {}]_vars
\* a release and then a shutdown have both put sandboxes into the stopped list
C13_Witness ==
    /\ sd_pc = "done" /\ released # {} /\ Len(stopped_containers) >= 2
    /\ stopped_containers[1] \in released

\* C14 as stated: after initialize the ready queue has config.size sandboxes;
\* after config.size allocates with distinct ids the ready queue is empty and
\* the active map has config.size entries; after releasing them all the
\* active map is empty and the stopped list has config.size entries.
C14_AllocatedAll ==
    nAllocOk = PoolSize /\ calls = PoolSize /\ \A p \in Callers : pc[p] = "idle"
C14_ReleasedAll ==
    calls = LifecycleCalls /\ \A p \in Callers : pc[p] = "idle"
C16_NoFailureEscapes ==
    /\ [](\A l \in Loops :
            exit_by[l] \in {"reset", "broken_pipe", "error"} =>
                task[l] = "done" /\ _shutdown_event)
    /\ [](\A l \in Loops : task[l] # "failed")
    /\ [](p_raised \subseteq {"start"})
    /\ [][\A l \in Loops :
            exit_by'[l] # exit_by[l] =>
                /\ \A k \in Loops \ {l} : task'[k] = task[k]
                /\ UNCHANGED <<cl_pc, p_raised, _running, exec_socket>>]_vars

\* one loop ended on an unexpected error while the other went on;
\* wait_completion returned and stop has run to its end without raising
C16_Witness ==
    /\ exit_by[Ssh] = "error" /\ exit_by[Ctr] = "cancelled"
    /\ waited /\ cl_pc = "idle" /\ exec_socket = "closed"

\* ---------------------------------------------------------------------
\* C20: when exec creation or the channel setup fails in start(), start()
\* raises and the proxy stays as constructed: the running flag is false, no
\* loop task exists, the completion event is not set, and nothing the
\* caller does afterwards, a stop() in particular, changes the proxy.
C20_FailedStartStaysCreated ==
    /\ []("start" \in p_raised =>
            /\ ~_running
            /\ \A l \in Loops : task[l] = "none"
            /\ ~_shutdown_event
            /\ cl_pc \in {"idle", "wait_completion"})
    /\ [][ "start" \in p_raised =>
             UNCHANGED <<exec_socket, _running, _shutdown_event, task, cancel_req, p_raised>> ]_vars
    /\ [][ "start" \in p_raised' /\ "start" \notin p_raised =>
             UNCHANGED <<_running, _shutdown_event, task, cancel_req, cl_pc>> ]_vars

\* start() has raised after the socket of the exec was obtained
C20_Witness ==
    "start" \in p_raised /\ exec_socket = "open" /\ cl_pc = "idle"

\* ---------------------------------------------------------------------
\* C18: on every way out of the session handler (normal completion, a
\* failed proxy.start, an unexpected error, cancellation of the handler
\* task) release has been called exactly once, with the session's id, if
\* allocate returned a sandbox, and never if it did not.
C18_ReleaseOnceIffAllocated ==
    /\ h_releases = (IF h_pc \in {"release", "done"} /\ h_container # None THEN 1 ELSE 0)
    /\ h_pc = "release" /\ pc[Handler] # "idle" => arg[Handler] = Sid
    /\ h_container # None => h_container \in bound
    /\ h_container = None /\ h_pc = "done" => Sid \notin ActiveKeys(active_sessions)

\* the handler task was cancelled while it waited for the session to end,
\* and has released its sandbox on the way out
C18_Witness ==
    h_pc = "done" /\ h_cancelled /\ h_releases = 1 /\ ~waited /\ exec_socket = "closed"

\* ---------------------------------------------------------------------
\* C17: a session whose proxy was started ends cleanly once either loop has
\* ended: when the handler has finished, both loop tasks have finished, the
\* channel to the sandbox has been closed (close() was called on it), the
\* recorder is stopped and the
\* session's sandbox is no longer in the active map (every container.stop
\* that was called having returned).
C17_CleanTermination ==
    h_pc = "done" /\ task[Ssh] # "none" /\ (\E l \in Loops : task[l] \in Exited) =>
        /\ \A l \in Loops : task[l] \in Finished
        /\ exec_socket \in {"closed", "close_failed"}
        /\ h_rec # <<"start">>
        /\ Sid \notin ActiveKeys(active_sessions)

\* ---------------------------------------------------------------------
\* C19: the handler bounds its wait for the end of the session by the
\* session timeout: it is never still suspended in wait_completion when more
\* than SessionTimeout has passed since it began to wait (it has gone on to
\* stop the proxy, finish the recording and release the sandbox).
C19_WaitBoundedByTimeout ==
    h_pc = "wait" => elapsed <= SessionTimeout

\* ---------------------------------------------------------------------
\* C21: stop() is idempotent and safe from any state. A stop() of a proxy
\* that is not running (never started, start failed, already stopped)
\* changes nothing; once a stop() of a started proxy has returned, the
\* running flag is false, both loop tasks have finished and close() was
\* called on the channel exactly once; close() is never called a second
\* time, and stop() never raises, whatever close() does.
C21_StopIdempotent ==
    /\ [](closes <= 1)
    /\ []("stop" \notin p_raised)
    /\ [](~_running /\ task[Ssh] # "none" /\ cl_pc = "idle" =>
            /\ \A l \in Loops : task[l] \in Finished
            /\ closes = 1
            /\ exec_socket \in {"closed", "close_failed"})
    /\ [][ stop_calls' # stop_calls /\ ~_running =>
             UNCHANGED <<exec_socket, _running, _shutdown_event, task, cancel_req, cl_pc,
                         p_raised, waited, exit_by, closes>> ]_vars

\* stop() was called twice on a started proxy; the close() of the first
\* one raised
C21_Witness ==
    stop_calls = 2 /\ exec_socket = "close_failed" /\ cl_pc = "idle" /\ ~_running

\* ---------------------------------------------------------------------
\* C22: stop() closes the channel only after both loop tasks have been
\* cancelled and awaited: in no state has close() been called on the
\* channel while a loop task has not finished, and no loop takes a step
\* after the close.
C22_CloseAfterLoopsEnd ==
    /\ [](closes > 0 => \A l \in Loops : task[l] \in Finished)
    /\ [][closes > 0 => task' = task]_vars

\* both loops were suspended in their I/O when stop() was called; they were
\* cancelled, and the channel is closed
C22_Witness ==
    closes = 1 /\ \A l \in Loops : task[l] = "cancelled"

\* ---------------------------------------------------------------------
\* The session recorder (src/src/sandtrap/session/recorder.py), with a
\* caller that makes any call at any time. No method awaits, so each call
\* is one step, whichever task makes it. The session handler starts a
\* recorder it has just built: start() is called on an inactive recorder.

\* record_* calls made in one behaviour
MaxEvents == 2
\* how far the monotonic clock runs, in ticks of half a microsecond
MaxClock == 2

\* the bytes that are valid UTF-8 on their own, and the chunks recorded: a
\* chunk of one stray continuation byte and one letter
ValidBytes == {"h"}
Payloads == {<<"x80", "h">>}
\* the terminal sizes a resize reports
Sizes == {<<100, 30>>}
\* the recorders built: <<enabled, <<width, height>>, metadata>>
RecorderConfigs == {<<FALSE, <<80, 24>>, "empty">>, <<TRUE, <<80, 24>>, "empty">>,
                    <<TRUE, <<132, 43>>, "given">>}

nonRecorderVars == <<allPoolVars, budget, proxyVars, handlerVars, authVars, unlocked_ops, create_log, capacity, backendVars>>

\* data.decode("utf-8", errors="replace"), recorder.py:140
decode(data) == [i \in 1..Len(data) |-> IF data[i] \in ValidBytes THEN data[i] ELSE "ufffd"]

\* f"{width}x{height}", recorder.py:87
resize_payload(w, h) == <<ToString(w), "x", ToString(h)>>

\* time.monotonic() - self._start_time, recorder.py:85 and 139
elapsed_since_reversed(t, s) == s - t
elapsed_since(t, s) == t - s

\* round(elapsed, 6): half-microsecond ticks to microseconds, ties to even
round6(e) ==
    LET q == e \div 2 IN
    IF e % 2 = 0 THEN q ELSE IF q % 2 = 0 THEN q ELSE q + 1

\* the header line of start(), recorder.py:55-63
header ==
    LET h == [version |-> 2, width |-> geometry[1], height |-> geometry[2], timestamp |-> "epoch"]
    IN  IF _metadata = "empty" THEN h ELSE [env |-> _metadata] @@ h

\* "if not self._config.enabled: return", recorder.py:47-48
start_skips_never(e) == FALSE
start_skips(e) == ~e

\* every failure is an Exception and is caught by "except Exception"
\* (recorder.py:66, 93, 110, 127, 148)
swallowed(r) == TRUE

\* mkdir, open, or the write and flush of the header may fail
RecorderStartResults == {"ok", "mkdir_error", "open_error", "write_error"}

\* SessionRecorder.start, recorder.py:45-70
RecorderStart(r) ==
    /\ _file = "none"
    /\ start_calls' = IF start_calls = "none" THEN "one" ELSE "many"
    /\ IF start_skips(enabled)
       THEN UNCHANGED <<_file, _start_time, disk, cast, pending, handle_open, rec_raised>>
       ELSE /\ CASE r = "mkdir_error" ->
                      UNCHANGED <<_file, _start_time, disk, cast, pending, handle_open>>
                 [] r = "open_error" ->
                      /\ disk' = disk \cup {"output_dir"}
                      /\ UNCHANGED <<_file, _start_time, cast, pending, handle_open>>
                 [] r = "write_error" ->
                      /\ disk' = disk \cup {"output_dir", "cast"}
                      /\ cast' = <<>>
                      /\ pending' = <<>>
                      /\ _start_time' = now
                      /\ _file' = "none"
                      /\ handle_open' = FALSE
                 [] r = "ok" ->
                      /\ disk' = disk \cup {"output_dir", "cast"}
                      /\ cast' = <<header>>
                      /\ pending' = <<>>
                      /\ _start_time' = now
                      /\ _file' = "open"
                      /\ handle_open' = TRUE
            /\ rec_raised' = (rec_raised \/ (r # "ok" /\ ~swallowed(r)))
    /\ UNCHANGED <<enabled, geometry, _metadata, _event_count, now, rec_log>>

\* the write may fail, or the flush after it
RecordResults == {"ok", "write_error", "flush_error"}

\* "self._event_count += 1" follows write and flush inside the try block
record_counted_always(r) == TRUE
record_counted(r) == r = "ok"

\* the type each call records under, recorder.py:74, 78, 87
event_type_output(call) == "o"
event_type(call) ==
    CASE call = "record_output" -> "o"
      [] call = "record_input" -> "i"
      [] call = "record_resize" -> "r"

\* what _record_event (recorder.py:134-154) and record_resize (80-98) share:
\* return if there is no file; else one line is written, flushed and counted.
\* a is what the history keeps of the arguments (the size of a resize).
RecordEvent(call, a, data, r) ==
    /\ Len(rec_log) < MaxEvents
    /\ IF _file = "none"
       THEN /\ rec_log' = Append(rec_log, [call |-> call, arg |-> a, res |-> "inactive"])
            /\ UNCHANGED <<cast, pending, _event_count, rec_raised>>
       ELSE LET line == [elapsed |-> round6(elapsed_since(now, _start_time)),
                         type |-> event_type(call), data |-> data] IN
            /\ CASE r = "ok" -> cast' = cast \o pending \o <<line>> /\ pending' = <<>>
                 [] r = "flush_error" -> pending' = Append(pending, line) /\ UNCHANGED cast
                 [] r = "write_error" -> UNCHANGED <<cast, pending>>
            /\ _event_count' = IF record_counted(r) THEN _event_count + 1 ELSE _event_count
            /\ rec_log' = Append(rec_log, [call |-> call, arg |-> a, res |-> r])
            /\ rec_raised' = (rec_raised \/ (r # "ok" /\ ~swallowed(r)))
    /\ UNCHANGED <<enabled, geometry, _metadata, _file, _start_time, now, disk, handle_open,
                   start_calls>>

\* SessionRecorder.record_output, recorder.py:72-74
RecordOutput(d, r) == RecordEvent("record_output", <<>>, decode(d), r)

\* SessionRecorder.record_input, recorder.py:76-78
RecordInput(d, r) == RecordEvent("record_input", <<>>, decode(d), r)

\* SessionRecorder.record_resize, recorder.py:80-98
RecordResize(g, r) == RecordEvent("record_resize", g, resize_payload(g[1], g[2]), r)

\* "finally: self._file = None", recorder.py:116-117
stop_file_kept_on_error(c) == IF c = "ok" THEN "none" ELSE "open"
stop_file(c) == "none"

\* SessionRecorder.stop, recorder.py:100-117: close() flushes what is
\* buffered and closes the descriptor, also when the flush fails
RecorderStop(c) ==
    /\ IF _file = "none"
       THEN UNCHANGED <<_file, cast, pending, handle_open, rec_raised>>
       ELSE /\ cast' = IF c = "ok" THEN cast \o pending ELSE cast
            /\ pending' = <<>>
            /\ handle_open' = FALSE
            /\ _file' = stop_file(c)
            /\ rec_raised' = (rec_raised \/ (c # "ok" /\ ~swallowed(c)))
    /\ UNCHANGED <<enabled, geometry, _metadata, _start_time, _event_count, now, disk, rec_log,
                   start_calls>>

\* open() fails (always when the directory is missing), or json.dump does
MetadataResults == {"ok", "open_error", "dump_error"}

\* SessionRecorder.write_metadata, recorder.py:119-132
WriteMetadata(r) ==
    /\ IF ~enabled \/ "output_dir" \notin disk \/ r = "open_error"
       THEN UNCHANGED disk
       ELSE disk' = disk \cup {"json"}
    /\ rec_raised' = (rec_raised \/ (enabled /\ r # "ok" /\ ~swallowed(r)))
    /\ UNCHANGED <<enabled, geometry, _metadata, _file, _start_time, _event_count, now, cast,
                   pending, handle_open, rec_log, start_calls>>

\* time passes between two calls
ClockAdvance ==
    /\ now < MaxClock
    /\ now' = now + 1
    /\ UNCHANGED <<enabled, geometry, _metadata, _file, _start_time, _event_count, disk, cast,
                   pending, handle_open, rec_log, start_calls, rec_raised>>

RecorderSpecInit ==
    /\ PoolInit
    /\ budget = 0
    /\ ProxyInit
    /\ HandlerInit
    /\ AuthInit(<<>>, 0)
    /\ \E k \in RecorderConfigs : RecorderInit(k[1], k[2], k[3])
    /\ BackendInit

RecorderNext ==
    \/ (\E r \in RecorderStartResults : RecorderStart(r)) /\ UNCHANGED nonRecorderVars
    \/ (\E d \in Payloads, r \in RecordResults : RecordOutput(d, r)) /\ UNCHANGED nonRecorderVars
    \/ (\E d \in Payloads, r \in RecordResults : RecordInput(d, r)) /\ UNCHANGED nonRecorderVars
    \/ (\E g \in Sizes, r \in RecordResults : RecordResize(g, r)) /\ UNCHANGED nonRecorderVars
    \/ (\E c \in CloseResults : RecorderStop(c)) /\ UNCHANGED nonRecorderVars
    \/ (\E r \in MetadataResults : WriteMetadata(r)) /\ UNCHANGED nonRecorderVars
    \/ ClockAdvance /\ UNCHANGED nonRecorderVars

RecorderSpec == RecorderSpecInit /\ [][RecorderNext]_vars

\* ---------------------------------------------------------------------
\* C23: with recording disabled, whatever calls are made, no transcript,
\* no sidecar and no output directory is created, and the recorder is never
\* active.
C23_DisabledCreatesNothing ==
    ~enabled => disk = {} /\ cast = <<>> /\ _file = "none" /\ ~handle_open

\* a disabled recorder on which start() and two record calls were made
C23_Witness ==
    ~enabled /\ start_calls # "none" /\ Len(rec_log) = MaxEvents

C25_FailedWriteDropsOneEvent ==
    /\ [](~rec_raised)
    /\ [](_event_count = Cardinality({i \in 1..Len(rec_log) : rec_log[i].res = "ok"}))
    /\ [][ Len(rec_log') > Len(rec_log) /\ rec_log'[Len(rec_log')].res \in {"write_error", "flush_error"} =>
             _file' = "open" /\ handle_open' ]_vars
    /\ [][ Len(rec_log') > Len(rec_log) /\ rec_log'[Len(rec_log')].res = "ok" =>
             /\ Len(cast') > Len(cast)
             /\ cast'[Len(cast')].type = event_type(rec_log'[Len(rec_log')].call) ]_vars

\* a write failed, the next record call succeeded and its line is the last
\* of the transcript
C25_Witness ==
    /\ Len(rec_log) = 2 /\ rec_log[1].res = "write_error" /\ rec_log[2].res = "ok"
    /\ _file = "open" /\ _event_count = 1 /\ Len(cast) = 2

\* ---------------------------------------------------------------------
\* C26: in every transcript the elapsed times of the events are not
\* negative and never decrease from one event to the next, whatever the
\* order in which output, input and resize events are recorded.
C26_ElapsedNonDecreasing ==
    \A i \in 2..Len(cast) :
        /\ cast[i].elapsed >= 0
        /\ i > 2 => cast[i].elapsed >= cast[i - 1].elapsed

\* an output and a resize event recorded at different times
C26_Witness ==
    /\ Len(cast) = 3
    /\ cast[2].type = "o" /\ cast[3].type = "r"
    /\ cast[3].elapsed > cast[2].elapsed

\* ---------------------------------------------------------------------
\* C27: after one start() that succeeded, N record calls that all
\* succeeded and stop(), the transcript is the header (version 2, the width
\* and height of the constructor) followed by N events, the i-th of the
\* type of the i-th call ("o" output, "i" input, "r" resize) and a resize
\* carrying "WIDTHxHEIGHT"; the event counter is N.
C27_RoundTrip ==
    (/\ start_calls = "one" /\ cast # <<>> /\ _file = "none"
     /\ \A i \in 1..Len(rec_log) : rec_log[i].res = "ok")
    => /\ Len(cast) = 1 + Len(rec_log)
       /\ cast[1].version = 2
       /\ cast[1].width = geometry[1]
       /\ cast[1].height = geometry[2]
       /\ _event_count = Len(rec_log)
       /\ \A i \in 1..Len(rec_log) :
            /\ rec_log[i].call = "record_output" => cast[i + 1].type = "o"
            /\ rec_log[i].call = "record_input" => cast[i + 1].type = "i"
            /\ rec_log[i].call = "record_resize" =>
                 /\ cast[i + 1].type = "r"
                 /\ rec_log[i].arg = <<100, 30>> => cast[i + 1].data = <<"100", "x", "30">>

\* start(), record_input, record_resize(100, 30), stop()
C27_Witness ==
    /\ start_calls = "one" /\ cast # <<>> /\ _file = "none"
    /\ Len(rec_log) = 2
    /\ rec_log[1] = [call |-> "record_input", arg |-> <<>>, res |-> "ok"]
    /\ rec_log[2] = [call |-> "record_resize", arg |-> <<100, 30>>, res |-> "ok"]

\* ---------------------------------------------------------------------
\* The authentication manager (src/src/hermes/server/auth.py), called by
\* the SSH server for every password attempt and every closed connection.

\* validate and cleanup_connection calls made in one behaviour
MaxAuthCalls == 4

\* the credential lists configured (AuthenticationConfig.static_credentials
\* takes any list), the thresholds, and the attempts made
CredentialLists ==
    { <<>>,
      << <<"root", "toor">> >>,
      << <<"root", "toor">>, <<"admin", "secret">> >>,
      << <<"root", "first">>, <<"root", "second">> >> }
Thresholds == 0..2
Attempts == { <<"root", "toor">>, <<"root", "first">>, <<"root", "second">>, <<"x", "x">> }

nonAuthVars == <<allPoolVars, budget, proxyVars, handlerVars, recorderVars, unlocked_ops, create_log, capacity, backendVars>>

\* self._credentials, the dict built from the list (auth.py:34-36): the
\* entry of a username is the password of the last pair that names it
_credentials_first(u) ==
    LET I == {i \in 1..Len(static_credentials) : static_credentials[i][1] = u}
    IN  IF I = {} THEN "absent"
        ELSE static_credentials[CHOOSE i \in I : \A j \in I : j >= i][2]
_credentials(u) ==
    LET I == {i \in 1..Len(static_credentials) : static_credentials[i][1] = u}
    IN  IF I = {} THEN "absent"
        ELSE static_credentials[CHOOSE i \in I : \A j \in I : j <= i][2]

\* AuthenticationManager._should_accept_all, auth.py:77-91
_should_accept_all(c) ==
    IF accept_all_after_failures = 0 THEN FALSE
    ELSE _failed_attempts[c] >= accept_all_after_failures

\* AuthenticationManager._reset_failures, auth.py:97-100
_reset_failures(c) == [_failed_attempts EXCEPT ![c] = 0]

\* AuthenticationManager._increment_failures, auth.py:93-95
_increment_failures(c) == [_failed_attempts EXCEPT ![c] = @ + 1]

\* AuthenticationManager.validate, auth.py:44-75
Validate(c, u, pw) ==
    /\ Len(auth_log) < MaxAuthCalls
    /\ LET ret == \/ _should_accept_all(c)
                  \/ _credentials(u) # "absent" /\ _credentials(u) = pw
       IN  /\ _failed_attempts' = IF ret THEN _reset_failures(c) ELSE _increment_failures(c)
           /\ auth_log' = Append(auth_log, [op |-> "validate", conn |-> c, user |-> u,
                                            pw |-> pw, ret |-> ret])
    /\ UNCHANGED <<static_credentials, accept_all_after_failures>>

\* AuthenticationManager.cleanup_connection, auth.py:102-109
CleanupConnection(c) ==
    /\ Len(auth_log) < MaxAuthCalls
    /\ _failed_attempts' = _reset_failures(c)
    /\ auth_log' = Append(auth_log, [op |-> "cleanup", conn |-> c, user |-> "", pw |-> "",
                                     ret |-> FALSE])
    /\ UNCHANGED <<static_credentials, accept_all_after_failures>>

AuthSpecInit ==
    /\ PoolInit
    /\ budget = 0
    /\ ProxyInit
    /\ HandlerInit
    /\ RecorderInit(FALSE, <<80, 24>>, "empty")
    /\ \E creds \in CredentialLists, n \in Thresholds : AuthInit(creds, n)
    /\ BackendInit

AuthNext ==
    \/ (\E c \in ConnectionIds, a \in Attempts : Validate(c, a[1], a[2])) /\ UNCHANGED nonAuthVars
    \/ (\E c \in ConnectionIds : CleanupConnection(c)) /\ UNCHANGED nonAuthVars

AuthSpec == AuthSpecInit /\ [][AuthNext]_vars

\* ---------------------------------------------------------------------
\* What the calls made so far say, independently of the manager's state.

\* the number of rejected attempts of connection c among the first n calls
\* that came after its last accepted attempt or cleanup
RECURSIVE FailuresSince(_, _)
FailuresSince(n, c) ==
    IF n = 0 THEN 0
    ELSE IF auth_log[n].conn # c THEN FailuresSince(n - 1, c)
    ELSE IF auth_log[n].op = "cleanup" \/ auth_log[n].ret THEN 0
    ELSE 1 + FailuresSince(n - 1, c)

\* (u, pw) is one of the configured pairs
Configured(u, pw) ==
    \E i \in 1..Len(static_credentials) : static_credentials[i] = <<u, pw>>

\* (u, pw) is the last configured pair for username u
ConfiguredLast(u, pw) ==
    \E i \in 1..Len(static_credentials) :
        /\ static_credentials[i] = <<u, pw>>
        /\ \A j \in (i + 1)..Len(static_credentials) : static_credentials[j][1] # u

\* the n-th call was made with the threshold reached
Bypassed(n) ==
    /\ accept_all_after_failures # 0
    /\ FailuresSince(n - 1, auth_log[n].conn) >= accept_all_after_failures

\* the failure count of every connection is the number of its rejected
\* attempts since its last accepted attempt or cleanup: accepting and
\* cleanup reset it, a rejection adds one to that connection only
CountsFollowCalls ==
    \A c \in ConnectionIds : _failed_attempts[c] = FailuresSince(Len(auth_log), c)

\* ---------------------------------------------------------------------
\* C28 as stated: validate returns true exactly when the threshold is
\* non-zero and reached for the connection, or (user, pw) is one of the
\* configured credentials; the counts follow the calls per connection.
C28_ValidateAcceptsConfigured ==
    /\ CountsFollowCalls
    /\ \A n \in 1..Len(auth_log) :
         auth_log[n].op = "validate" =>
            (auth_log[n].ret <=> Bypassed(n) \/ Configured(auth_log[n].user, auth_log[n].pw))

\* C28 amended: as above, with "(user, pw) is the last configured
\* credential for that username" in place of "a configured credential".
C28_ValidateAcceptsLastConfigured ==
    /\ CountsFollowCalls
    /\ \A n \in 1..Len(auth_log) :
         auth_log[n].op = "validate" =>
            (auth_log[n].ret <=> Bypassed(n) \/ ConfiguredLast(auth_log[n].user, auth_log[n].pw))

\* a wrong attempt was rejected, the next attempt of the same connection
\* was accepted by the threshold alone, and the other connection's next
\* attempt with the same wrong pair was rejected
C28_Witness ==
    /\ Len(auth_log) >= 3
    /\ auth_log[1] = [op |-> "validate", conn |-> "conn1", user |-> "x", pw |-> "x", ret |-> FALSE]
    /\ auth_log[2] = [op |-> "validate", conn |-> "conn1", user |-> "x", pw |-> "x", ret |-> TRUE]
    /\ auth_log[3] = [op |-> "validate", conn |-> "conn2", user |-> "x", pw |-> "x", ret |-> FALSE]

\* ---------------------------------------------------------------------
\* C29: every call that changes the ready queue, the active map or the
\* stopped list is made by an operation that holds the pool lock at that
\* moment: no operation, on a success or a failure path, has called a
\* mutator of one of the three collections without the lock.
C29_MutationsUnderLock ==
    unlocked_ops = {}

\* ---------------------------------------------------------------------
\* C30: no create or stop call of the runtime is in progress while the pool
\* lock is held, so that a slow creation or stop never keeps another
\* session's allocate or release waiting for the lock: in no state is the
\* lock holder suspended in an on-demand creation (allocate), in the stop of
\* an active or ready sandbox (shutdown) or in the stop of a sandbox created
\* too late (background replacement).
RuntimeCallUnderLock ==
    /\ lockq # <<>>
    /\ \/ \E p \in Callers : lockq[1] = Me(p) /\ pc[p] = "alloc_create"
       \/ sd_pc \in {"sd_active", "sd_ready"}
       \/ rp_stop # None

C30_NoRuntimeCallUnderLock ==
    ~RuntimeCallUnderLock

\* ---------------------------------------------------------------------
\* One sandbox creation on its own: _create_container (pool.py:235-289) as
\* initialize, allocate and _spawn_replacement run it in the executor, for
\* every answer of the runtime to the first and to the second attempt.

\* creations made in one behaviour
MaxCreations == 3

\* the callers of _create_container_sync (pool.py:80, 124, 302)
CreateOps == {"initialize", "allocate", "replacement"}

nonCreateVars == <<allPoolVars, budget, proxyVars, handlerVars, recorderVars, authVars, unlocked_ops, capacity, backendVars>>

CreateContainer(op, r1, r2) ==
    /\ Len(create_log) < MaxCreations
    /\ create_log' = Append(create_log, [op |-> op, first |-> r1, second |-> r2,
                                         res |-> _create_container(r1, r2)])

CreationSpecInit ==
    /\ PoolInit
    /\ budget = 0
    /\ ProxyInit
    /\ HandlerInit
    /\ SideInit

CreationNext ==
    \/ (\E r1, r2 \in AttemptResults : CreateContainer("initialize", r1, r2)) /\ UNCHANGED nonCreateVars
    \/ (\E r1, r2 \in AttemptResults : CreateContainer("allocate", r1, r2)) /\ UNCHANGED nonCreateVars
    \/ (\E r1, r2 \in AttemptResults : CreateContainer("replacement", r1, r2)) /\ UNCHANGED nonCreateVars

CreationSpec == CreationSpecInit /\ [][CreationNext]_vars

\* ---------------------------------------------------------------------
\* C31: every creation made for initialize or for the on-demand path of
\* allocate makes at most two attempts; a first attempt that fails, in
\* whatever way, is followed by one more; the creation succeeds when the
\* first or that second attempt succeeds; and it fails only after two
\* failed attempts.
C31_ExactlyOneRetry ==
    \A i \in 1..Len(create_log) :
        LET e == create_log[i] IN
        e.op \in {"initialize", "allocate"} =>
            /\ e.res.attempts <= 2
            /\ e.first # "ok" => e.res.attempts = 2
            /\ e.res.ok <=> (e.first = "ok" \/ e.second = "ok")
            /\ ~e.res.ok => e.res.attempts = 2


\* ------------------------------------------------- the streaming loops
\* sock_sendall calls made for the chunk the session-to-sandbox loop holds
SendAttempts == Count(chunk_log[Ssh], "sock_sendall")
FirstAt(s, x) == CHOOSE i \in 1..Len(s) : s[i] = x /\ \A j \in 1..(i - 1) : s[j] # x
Tail3(s) == SubSeq(s, Len(s) - 2, Len(s))
Before(s, x, y) == y \in Range(s) => x \in Range(s) /\ FirstAt(s, x) < FirstAt(s, y)

\* C32: in the session-to-sandbox loop a chunk is written with at most two
\* sock_sendall attempts: a first attempt that would block is followed by
\* one sleep and one second attempt, and when the second attempt fails too,
\* whatever it raises, the loop has ended and the completion event is set.
C32_OneRetryThenEnd ==
    /\ SendAttempts <= 2
    /\ task[Ssh] = "send" => SendAttempts = 1
    /\ task[Ssh] = "retry_sleep" =>
          SendAttempts = 1 /\ Tail3(chunk_log[Ssh]) = <<"sock_sendall", "would_block", "sleep">>
    /\ task[Ssh] = "retry_send" =>
          SendAttempts = 2 /\ Tail3(Front(chunk_log[Ssh])) = <<"sock_sendall", "would_block", "sleep">>
                           /\ Last(chunk_log[Ssh]) = "sock_sendall"
    /\ SendAttempts = 2 /\ Last(chunk_log[Ssh]) # "sock_sendall" =>
          task[Ssh] \in Exited /\ _shutdown_event

\* the retry would block as well: the loop is over and the event is set
C32_Witness ==
    /\ SendAttempts = 2
    /\ Last(chunk_log[Ssh]) = "would_block"
    /\ task[Ssh] = "done"
    /\ _shutdown_event

\* C33: with a recorder attached, a loop holds one chunk at a time and hands
\* it to the recorder before it forwards it: record_input before sock_sendall
\* in the session-to-sandbox loop, record_output before stdout.write in the
\* sandbox-to-session loop; without a recorder nothing is recorded.
C33_RecordBeforeForward ==
    /\ \A l \in Loops : Count(chunk_log[l], IF l = Ssh THEN "read" ELSE "sock_recv") <= 1
    /\ recorder =>
          /\ Before(chunk_log[Ssh], "record_input", "sock_sendall")
          /\ Before(chunk_log[Ctr], "record_output", "write")
          /\ Count(chunk_log[Ssh], "record_input") <= 1
          /\ Count(chunk_log[Ctr], "record_output") <= 1
    /\ ~recorder =>
          /\ "record_input" \notin Range(chunk_log[Ssh])
          /\ "record_output" \notin Range(chunk_log[Ctr])

\* both loops are forwarding a chunk they have recorded
C33_Witness ==
    /\ recorder
    /\ task[Ssh] = "send" /\ "sock_sendall" \in Range(chunk_log[Ssh])
    /\ task[Ctr] = "send" /\ "write" \in Range(chunk_log[Ctr])

\* C34: the sandbox-to-session loop reads from the sandbox channel, or
\* sleeps before a read, only when every chunk it has read was taken by the
\* transport: at most one chunk is read and not yet drained.
C34_Backpressure ==
    /\ unaccepted <= 1
    /\ task[Ctr] \in {"read", "sleep"} => unaccepted = 0
    /\ task[Ctr] = "send" => unaccepted = 1 /\ Last(chunk_log[Ctr]) = "drain"

\* a chunk is written and its drain is awaited
C34_Witness ==
    /\ task[Ctr] = "send"
    /\ unaccepted = 1
    /\ chunk_log[Ctr] = <<"sock_recv", "write", "drain">>


\* ------------------------------------------------- the handler's cleanup
\* C35: the session handler calls write_metadata() at most once, and only
\* after recorder.stop() has returned; when the handler has finished and a
\* recorder was created, it has called start, stop and write_metadata, each
\* once and in this order; without a recorder it calls none of them.
C35_MetadataAfterStop ==
    /\ Count(h_rec, "write_metadata") <= 1
    /\ Count(h_rec, "stop") <= 1
    /\ Before(h_rec, "stop", "write_metadata")
    /\ h_pc = "done" /\ recorder => h_rec = <<"start", "stop", "write_metadata">>
    /\ ~recorder => h_rec = <<>>

\* a session with a recorder whose handler was cancelled and has finished
C35_Witness ==
    /\ h_pc = "done" /\ h_cancelled
    /\ h_rec = <<"start", "stop", "write_metadata">>

\* C39: when the handler stops the recorder or calls release, its
\* proxy.stop() call has returned: the running flag is false, no loop task
\* is pending (each has finished, or none was created because start
\* failed), and close() was called on the channel of a started proxy. No
\* loop is left to call the recorder or to stream to the sandbox.
C39_CleanupOrdered ==
    "stop" \in Range(h_rec) \/ h_releases > 0 =>
        /\ stop_calls >= 1 /\ cl_pc = "idle"
        /\ ~_running
        /\ \A l \in Loops : task[l] \in Finished \cup {"none"}
        /\ task[Ssh] # "none" => exec_socket \in {"closed", "close_failed"} /\ closes = 1

\* stop() had to cancel a loop that was still streaming; the recorder was
\* stopped and the release was called after that
C39_Witness ==
    /\ "stop" \in Range(h_rec) /\ h_releases = 1
    /\ exit_by[Ctr] = "cancelled" /\ task[Ssh] = "done"
    /\ closes = 1


\* --------------------------------------------------------- replenishment
\* A pool that is initialized and then serves more allocations than its
\* ready queue holds (two callers can meet at the lock while one creates on
\* demand), on a runtime that creates the sandboxes it takes to overfill the
\* queue: allocate and the replacements it schedules, nothing else.
ReplenishCalls == PoolSize + 2

ReplenishInit ==
    /\ PoolInitWith(OverfillSandboxes)
    /\ budget = ReplenishCalls
    /\ ProxyInit
    /\ HandlerInit
    /\ SideInit

ReplenishNext ==
    \/ InitializeStart /\ UNCHANGED extVars
    \/ \E i \in 1..PoolSize, r1, r2 \in AttemptResults :
          InitializeTaskDone(i, r1, r2) /\ UNCHANGED <<budget, proxyVars, handlerVars, recorderVars, authVars, create_log, capacity, backendVars>>
    \/ init_pc = "done" /\ (\E p \in Callers, s \in SessionIds : AllocateCall(p, s)) /\ UNCHANGED extVars
    \/ \E p \in Callers : AllocateResume(p) /\ UNCHANGED extVars
    \/ \E p \in Callers, r1, r2 \in AttemptResults : AllocateCreateDone(p, r1, r2) /\ UNCHANGED extVars
    \/ SpawnStart /\ UNCHANGED extVars
    \/ \E r1, r2 \in AttemptResults : SpawnCreateDone(r1, r2) /\ UNCHANGED extVars
    \/ SpawnResume /\ UNCHANGED extVars

ReplenishSpec == ReplenishInit /\ [][ReplenishNext]_vars

\* C36: once initialize() has returned without an error, the ready queue
\* never holds more sandboxes than config.size, whatever allocate calls and
\* replacements follow.
C36_ReadyWithinTarget ==
    init_pc = "done" => Len(ready_pool) <= PoolSize


\* ------------------------------------------------------- after shutdown
\* no pool operation and no replacement is under way
Quiescent ==
    /\ \A p \in Callers : pc[p] = "idle"
    /\ rp_scheduled = 0 /\ rp_creating = 0 /\ rp_stop = None
    /\ lockq = <<>>

\* C37: once shutdown() has returned the active map is empty, and when
\* nothing is under way any more no sandbox the pool created is running,
\* whatever allocate calls sessions make after the shutdown.
C37_ShutdownFinal ==
    sd_pc = "done" =>
        /\ active_sessions = <<>>
        /\ Quiescent => \A c \in Sandboxes : status[c] # "running"


\* ------------------------------------------------------------- progress
\* The steps that are not calls made by the environment: a waiter takes the
\* lock that was released, a runtime create or stop call returns or raises,
\* a scheduled replacement task starts.
PoolProgress ==
    \/ (\E i \in 1..PoolSize, r1, r2 \in AttemptResults : InitializeTaskDone(i, r1, r2))
          /\ UNCHANGED <<budget, proxyVars, handlerVars, recorderVars, authVars, create_log, capacity, backendVars>>
    \/ (\E p \in Callers : AllocateResume(p)) /\ UNCHANGED extVars
    \/ (\E p \in Callers, r1, r2 \in AttemptResults : AllocateCreateDone(p, r1, r2)) /\ UNCHANGED extVars
    \/ (\E p \in Callers : ReleaseResume(p)) /\ UNCHANGED extVars
    \/ (\E p \in Callers, ok \in BOOLEAN : ReleaseStopDone(p, ok)) /\ UNCHANGED extVars
    \/ (\E p \in Callers : ReleaseResume2(p)) /\ UNCHANGED extVars
    \/ (ShutdownResume) /\ UNCHANGED extVars
    \/ (\E ok \in BOOLEAN : ShutdownActiveStopDone(ok)) /\ UNCHANGED extVars
    \/ (\E ok \in BOOLEAN : ShutdownReadyStopDone(ok)) /\ UNCHANGED extVars
    \/ (SpawnStart) /\ UNCHANGED extVars
    \/ (\E r1, r2 \in AttemptResults : SpawnCreateDone(r1, r2)) /\ UNCHANGED extVars
    \/ (SpawnResume) /\ UNCHANGED extVars
    \/ (\E ok \in BOOLEAN : SpawnStopDone(ok)) /\ UNCHANGED extVars

\* The event loop runs what is ready to run, and every runtime call ends.
FairSpec == Init /\ [][Next]_vars /\ WF_vars(PoolProgress)

\* C38: every allocate, release and shutdown call that was made returns
\* (or raises), whatever the interleaving, when the event loop keeps running
\* and every runtime create and stop call ends.
C38_CallsReturn ==
    /\ \A p \in Callers : (pc[p] # "idle") ~> (pc[p] = "idle")
    /\ (sd_pc # "idle") ~> (sd_pc = "done")

\* a shutdown and an allocate that was served after it began have both
\* returned, and nothing is under way
C38_Witness ==
    /\ sd_pc = "done" /\ shutdown_flag
    /\ nAllocOk >= 1 /\ active_sessions # <<>>
    /\ Quiescent


\* ------------------------------------------------------------- backend
\* AsyncSSHBackend and SandTrapSSHServer (server/asyncssh_backend.py): one
\* server object per connection, one backend. connection_id is a fresh
\* uuid4; connection c gets the id c, and its SessionInfo carries that id.
nonBackendVars == <<allPoolVars, budget, proxyVars, handlerVars, recorderVars, authVars,
                    unlocked_ops, create_log, capacity>>

\* session_info = list(self._session_info_map.values())[-1]
session_info_of(map, c) == map[Len(map)]

\* self._backend._session_info_map[self.connection_id] = self.session_info
connection_made(c) ==
    /\ conn_state[c] = "none"
    /\ conn_state' = [conn_state EXCEPT ![c] = "made"]
    /\ _session_info_map' = Append(_session_info_map, c)
    /\ UNCHANGED sessions

\* validate_password returns True: the client may open sessions
validate_password(c) ==
    /\ conn_state[c] = "made"
    /\ conn_state' = [conn_state EXCEPT ![c] = "authenticated"]
    /\ UNCHANGED <<_session_info_map, sessions>>

\* asyncssh calls the session factory for a channel of connection c
_session_factory(c) ==
    /\ conn_state[c] = "authenticated"
    /\ _session_info_map # <<>>
    /\ sessions' = sessions \cup {[conn |-> c, session_id |-> session_info_of(_session_info_map, c)]}
    /\ UNCHANGED <<conn_state, _session_info_map>>

\* connection_lost: the sessions of the connection end; the entry of the
\* connection stays in the map
connection_lost(c) ==
    /\ conn_state[c] \in {"made", "authenticated"}
    /\ conn_state' = [conn_state EXCEPT ![c] = "lost"]
    /\ sessions' = {s \in sessions : s.conn # c}
    /\ UNCHANGED _session_info_map

BackendSpecInit ==
    /\ PoolInit
    /\ budget = 0
    /\ ProxyInit
    /\ HandlerInit
    /\ SideInit

BackendNext ==
    \/ \E c \in Connections : connection_made(c) /\ UNCHANGED nonBackendVars
    \/ \E c \in Connections : validate_password(c) /\ UNCHANGED nonBackendVars
    \/ \E c \in Connections : _session_factory(c) /\ UNCHANGED nonBackendVars
    \/ \E c \in Connections : connection_lost(c) /\ UNCHANGED nonBackendVars

BackendSpec == BackendSpecInit /\ [][BackendNext]_vars

\* C40: every live session carries the SessionInfo of the connection it was
\* opened on, so sessions of different connections never have the same
\* session id.
C40_OwnSessionInfo ==
    /\ \A s \in sessions : s.session_id = s.conn
    /\ \A s, u \in sessions : s.conn # u.conn => s.session_id # u.session_id

====
